---- MODULE Spec2Model ----
(***************************************************************************)
(* Tool-calling orchestration of the tabla chat assistant:                 *)
(*   core/llm_client.py  LLMClient.respond, LLMClient.process_user_request *)
(*   router.py           FUNCTION_REGISTRY, execute_function_call          *)
(*   messages.py         create_simplified_tool_response                   *)
(*   wrappers.py, googledb.py   the registered tool handlers               *)
(*                                                                         *)
(* Python values are tagged records: None, str, dict and list.  A str is a *)
(* sequence of tokens (literal pieces of text and interpolated values), so *)
(* that formatting, serialisation and "contains" are computed, not assumed.*)
(***************************************************************************)
EXTENDS Integers, Sequences, FiniteSets, TLC

(***************************************************************************)
(* Bounds of the model.                                                    *)
(***************************************************************************)
\* max_depth ranges over 0..MaxDepthBound
MaxDepthBound == 2
\* the LLM requests at most this many tool calls in one reply
MaxCallsPerReply == 2
\* the LLM requests at most this many tool calls over one run
MaxCallsPerRun == 3
\* slack_events is invoked at most this many times
MaxDeliveries == 2
\* the LLM requests at most this many tool calls over the run of one event
MaxCallsPerEvent == 1
\* the replies given to a pair of runs request at most this many tool calls
MaxTwinCalls == 2
\* add_message is called at most this many times for one user
MaxAdded == 102

(***************************************************************************)
(* Python values.                                                          *)
(***************************************************************************)
PyNone == [t |-> "None"]
PyStr(s) == [t |-> "str", s |-> s]
PyDict(d) == [t |-> "dict", d |-> d]
PyList(l) == [t |-> "list", l |-> l]

IsNone(v) == v.t = "None"
IsStr(v) == v.t = "str"
IsDict(v) == v.t = "dict"

\* bool(v): None, "", {} and [] are falsy
Truthy(v) ==
    CASE v.t = "None" -> FALSE
      [] v.t = "str" -> v.s # <<>>
      [] v.t = "dict" -> DOMAIN v.d # {}
      [] v.t = "list" -> v.l # <<>>

\* d.get(k) on a dict value
PyGet(v, k) == IF k \in DOMAIN v.d THEN v.d[k] ELSE PyNone

\* needle occurs in hay as a contiguous run of tokens
Contains(hay, needle) ==
    \E i \in 0..(Len(hay) - Len(needle)) :
        \A j \in 1..Len(needle) : hay[i + j] = needle[j]

Last(s) == s[Len(s)]

(***************************************************************************)
(* json.dumps: keys in insertion order, strings quoted and escaped.        *)
(***************************************************************************)
\* the keys of the dicts built by the program, in the order they are inserted
KeyOrder == <<"type", "data", "message", "details", "chart_type", "title", "image">>

\* json.dumps escapes a newline inside a string
JsonEscapeToken(tok) == IF tok = "\n" THEN "\\n" ELSE tok

JsonEscape(s) == [i \in 1..Len(s) |-> JsonEscapeToken(s[i])]

RECURSIVE json_dumps(_)
RECURSIVE DumpItems(_, _, _)
DumpItems(d, keys, first) ==
    IF keys = <<>> THEN <<>>
    ELSE LET k == Head(keys) IN
         IF k \in DOMAIN d
         THEN (IF first THEN <<>> ELSE <<", ">>)
              \o <<"\"", k, "\": ">> \o json_dumps(d[k])
              \o DumpItems(d, Tail(keys), FALSE)
         ELSE DumpItems(d, Tail(keys), first)

json_dumps(v) ==
    CASE v.t = "None" -> <<"null">>
      [] v.t = "str" -> <<"\"">> \o JsonEscape(v.s) \o <<"\"">>
      [] v.t = "dict" -> <<"{">> \o DumpItems(v.d, KeyOrder, TRUE) \o <<"}">>

(***************************************************************************)
(* messages.py / router.py: the response builders.                         *)
(***************************************************************************)
create_success_response(data, message) ==
    IF Truthy(message)
    THEN PyDict([type |-> PyStr(<<"success">>), data |-> data, message |-> message])
    ELSE PyDict([type |-> PyStr(<<"success">>), data |-> data])

messages_create_error_response(message, details) ==
    IF Truthy(details)
    THEN PyDict([type |-> PyStr(<<"error">>),
                 data |-> PyDict([message |-> message, details |-> details])])
    ELSE PyDict([type |-> PyStr(<<"error">>),
                 data |-> PyDict([message |-> message])])

create_error_response(message, details) ==
    IF Truthy(details)
    THEN PyDict([type |-> PyStr(<<"error">>),
                 data |-> PyDict([message |-> message, details |-> details])])
    ELSE PyDict([type |-> PyStr(<<"error">>),
                 data |-> PyDict([message |-> message])])

(***************************************************************************)
(* The tool handlers (wrappers.py, googledb.py).  What a handler returns   *)
(* depends on its backend (the plotting library, BigQuery), whose outcome  *)
(* is one of BackendOutcomes.                                              *)
(***************************************************************************)
BackendOutcomes == {"ok", "empty", "fail"}

Return(v) == [kind |-> "return", value |-> v]
Raise(exc, text) == [kind |-> "raise", exc |-> exc, text |-> text]

\* the bytes of a rendered chart, and base64.b64encode of them
ImageBytes == "PNG"

b64encode(bytes) == IF bytes = "PNG" THEN "UE5H" ELSE "AA=="

encode_image_to_base64(image_bytes) ==
    IF image_bytes = ""
    THEN PyNone
    ELSE PyStr(<<"data:image/png;base64,", b64encode(image_bytes)>>)

\* the six chart wrappers differ only in these three texts
ChartNames ==
    {"create_bar_chart", "create_pie_chart", "create_single_line_graph",
     "create_multiple_line_graph", "create_single_area_chart",
     "create_stacked_area_chart"}

ChartType(name) ==
    CASE name = "create_bar_chart" -> "bar_chart"
      [] name = "create_pie_chart" -> "pie_chart"
      [] name = "create_single_line_graph" -> "single_line_graph"
      [] name = "create_multiple_line_graph" -> "multiple_line_graph"
      [] name = "create_single_area_chart" -> "single_area_chart"
      [] name = "create_stacked_area_chart" -> "stacked_area_chart"

ChartLabel(name) ==
    CASE name = "create_bar_chart" -> "bar chart"
      [] name = "create_pie_chart" -> "pie chart"
      [] name = "create_single_line_graph" -> "single line graph"
      [] name = "create_multiple_line_graph" -> "multiple line graph"
      [] name = "create_single_area_chart" -> "single area.py chart"
      [] name = "create_stacked_area_chart" -> "stacked area.py chart"

ChartLabelCap(name) ==
    CASE name = "create_bar_chart" -> "Bar chart"
      [] name = "create_pie_chart" -> "Pie chart"
      [] name = "create_single_line_graph" -> "Single line graph"
      [] name = "create_multiple_line_graph" -> "Multiple line graph"
      [] name = "create_single_area_chart" -> "Single area.py chart"
      [] name = "create_stacked_area_chart" -> "Stacked area.py chart"

\* wrappers.create_bar_chart and its five siblings, the arguments bound
create_chart(name, args, backend) ==
    CASE backend = "ok" ->
           Return(create_success_response(
               PyDict([chart_type |-> PyStr(<<ChartType(name)>>),
                       title |-> args.title,
                       image |-> encode_image_to_base64(ImageBytes)]),
               PyStr(<<ChartLabelCap(name), " '">> \o args.title.s
                     \o <<"' created successfully">>)))
      [] backend = "empty" ->
           Return(messages_create_error_response(
               PyStr(<<"Failed to generate ", ChartLabel(name)>>), PyNone))
      [] backend = "fail" ->
           Return(messages_create_error_response(
               PyStr(<<"Error creating ", ChartLabel(name)>>),
               PyStr(<<"plot failed">>)))

\* googledb.run_query, the arguments bound
run_query(args, backend) ==
    CASE backend = "ok" ->
           Return(PyStr(args.explanation.s \o <<"\n\n**Table Data:**\n\n">>
                        \o <<"| 42 |">>))
      [] backend = "empty" ->
           Return(PyStr(args.explanation.s \o <<"\n\n**Table Data:**\n\n">>
                        \o <<"| No Data | Query returned no results |", "\n",
                             "| --- | --- |">>))
      [] backend = "fail" ->
           Raise("GoogleCloudError",
                 <<"Query execution failed: ", "bigquery unavailable">>)

\* googledb.resolve_name_tool, the arguments bound
resolve_name_tool(args, backend) ==
    CASE backend = "ok" -> Return(PyStr(<<"Acme Lending Corp">>))
      [] backend = "empty" -> Return(PyNone)
      [] backend = "fail" ->
           Raise("GoogleCloudError",
                 <<"Query execution failed: ", "bigquery unavailable">>)

(***************************************************************************)
(* router.py: the registry and the dispatcher.                             *)
(***************************************************************************)
FUNCTION_REGISTRY ==
    {"execute_sql_query", "resolve_name"} \cup ChartNames

\* the parameters of each registered handler; none has a default
Params(name) ==
    CASE name = "execute_sql_query" -> {"sql_query", "explanation"}
      [] name = "resolve_name" -> {"user_input", "column", "table"}
      [] name = "create_bar_chart" ->
           {"categories", "values", "title", "x_label", "y_label",
            "palette_type", "value_type"}
      [] name = "create_pie_chart" ->
           {"data_dict", "title", "explode_largest", "palette_type"}
      [] OTHER ->
           {"data_dict", "title", "x_label", "y_label", "palette_type",
            "value_type"}

\* function_handler(**function_arguments): binding the arguments raises a
\* TypeError unless they are a mapping whose keys are the parameters
function_handler(name, function_arguments, backend) ==
    IF ~IsDict(function_arguments)
    THEN Raise("TypeError", <<"argument after ** must be a mapping">>)
    ELSE IF DOMAIN function_arguments.d # Params(name)
    THEN Raise("TypeError", <<name, "() got arguments that do not match its parameters">>)
    ELSE CASE name = "execute_sql_query" -> run_query(function_arguments.d, backend)
           [] name = "resolve_name" -> resolve_name_tool(function_arguments.d, backend)
           [] OTHER -> create_chart(name, function_arguments.d, backend)

\* execute_function_call with only its `except TypeError`: any other
\* exception of the handler leaves the dispatcher
execute_function_call_TypeErrorOnly(function_name, function_arguments, backend) ==
    IF function_name \notin FUNCTION_REGISTRY
    THEN Return(create_error_response(
             PyStr(<<"in execute_function_call Function '", function_name,
                     "' not found in registry", "\n">>), PyNone))
    ELSE LET outcome == function_handler(function_name, function_arguments, backend)
         IN CASE outcome.kind = "return" -> Return(outcome.value)
              [] outcome.kind = "raise" /\ outcome.exc = "TypeError" ->
                   Return(create_error_response(
                       PyStr(<<" in execute_function_call Invalid arguments for function '",
                               function_name, "'">>),
                       PyStr(outcome.text)))
              [] OTHER -> outcome

\* execute_function_call that answers a handler's None with an error response
execute_function_call_NoneAsError(function_name, function_arguments, backend) ==
    IF function_name \notin FUNCTION_REGISTRY
    THEN Return(create_error_response(
             PyStr(<<"in execute_function_call Function '", function_name,
                     "' not found in registry", "\n">>), PyNone))
    ELSE LET outcome == function_handler(function_name, function_arguments, backend)
         IN CASE outcome.kind = "return" ->
                   IF IsNone(outcome.value)
                   THEN Return(create_error_response(
                            PyStr(<<"function '", function_name, "' returned no result">>),
                            PyNone))
                   ELSE Return(outcome.value)
              [] outcome.kind = "raise" /\ outcome.exc = "TypeError" ->
                   Return(create_error_response(
                       PyStr(<<" in execute_function_call Invalid arguments for function '",
                               function_name, "'">>),
                       PyStr(outcome.text)))
              [] OTHER ->
                   Return(create_error_response(
                       PyStr(<<" in execute_function_call Error executing function '",
                               function_name, "'">>),
                       PyStr(outcome.text)))

\* execute_function_call that wraps a handler's text into a success response
execute_function_call_WrapsText(function_name, function_arguments, backend) ==
    IF function_name \notin FUNCTION_REGISTRY
    THEN Return(create_error_response(
             PyStr(<<"in execute_function_call Function '", function_name,
                     "' not found in registry", "\n">>), PyNone))
    ELSE LET outcome == function_handler(function_name, function_arguments, backend)
         IN CASE outcome.kind = "return" ->
                   IF IsStr(outcome.value)
                   THEN Return(PyDict([type |-> PyStr(<<"success">>),
                                       data |-> PyDict([value |-> outcome.value])]))
                   ELSE Return(outcome.value)
              [] outcome.kind = "raise" /\ outcome.exc = "TypeError" ->
                   Return(create_error_response(
                       PyStr(<<" in execute_function_call Invalid arguments for function '",
                               function_name, "'">>),
                       PyStr(outcome.text)))
              [] OTHER ->
                   Return(create_error_response(
                       PyStr(<<" in execute_function_call Error executing function '",
                               function_name, "'">>),
                       PyStr(outcome.text)))

\* execute_function_call that wraps every mapping of a handler, tagged or not
execute_function_call_WrapsMapping(function_name, function_arguments, backend) ==
    IF function_name \notin FUNCTION_REGISTRY
    THEN Return(create_error_response(
             PyStr(<<"in execute_function_call Function '", function_name,
                     "' not found in registry", "\n">>), PyNone))
    ELSE LET outcome == function_handler(function_name, function_arguments, backend)
         IN CASE outcome.kind = "return" ->
                   IF IsDict(outcome.value)
                   THEN Return(PyDict([type |-> PyStr(<<"success">>),
                                       data |-> outcome.value]))
                   ELSE Return(outcome.value)
              [] outcome.kind = "raise" /\ outcome.exc = "TypeError" ->
                   Return(create_error_response(
                       PyStr(<<" in execute_function_call Invalid arguments for function '",
                               function_name, "'">>),
                       PyStr(outcome.text)))
              [] OTHER ->
                   Return(create_error_response(
                       PyStr(<<" in execute_function_call Error executing function '",
                               function_name, "'">>),
                       PyStr(outcome.text)))

\* execute_function_call without the test of line 91: the lookup of line 97
\* raises KeyError, which lines 116-123 report
execute_function_call_NoRegistryCheck(function_name, function_arguments, backend) ==
    IF function_name \notin FUNCTION_REGISTRY
    THEN Return(create_error_response(
             PyStr(<<" in execute_function_call Error executing function '",
                     function_name, "'">>),
             PyStr(<<"'", function_name, "'">>)))
    ELSE LET outcome == function_handler(function_name, function_arguments, backend)
         IN CASE outcome.kind = "return" -> Return(outcome.value)
              [] outcome.kind = "raise" /\ outcome.exc = "TypeError" ->
                   Return(create_error_response(
                       PyStr(<<" in execute_function_call Invalid arguments for function '",
                               function_name, "'">>),
                       PyStr(outcome.text)))
              [] OTHER ->
                   Return(create_error_response(
                       PyStr(<<" in execute_function_call Error executing function '",
                               function_name, "'">>),
                       PyStr(outcome.text)))

\* execute_function_call with a single `except Exception`: a TypeError is
\* reported like any other exception
execute_function_call_OneMessage(function_name, function_arguments, backend) ==
    IF function_name \notin FUNCTION_REGISTRY
    THEN Return(create_error_response(
             PyStr(<<"in execute_function_call Function '", function_name,
                     "' not found in registry", "\n">>), PyNone))
    ELSE LET outcome == function_handler(function_name, function_arguments, backend)
         IN CASE outcome.kind = "return" -> Return(outcome.value)
              [] OTHER ->
                   Return(create_error_response(
                       PyStr(<<" in execute_function_call Error executing function '",
                               function_name, "'">>),
                       PyStr(outcome.text)))

\* what execute_function_call does with the handler's outcome: a returned
\* value is handed on as it is, a TypeError and any other exception become
\* error responses
execute_function_call(function_name, function_arguments, backend) ==
    IF function_name \notin FUNCTION_REGISTRY
    THEN Return(create_error_response(
             PyStr(<<"in execute_function_call Function '", function_name,
                     "' not found in registry", "\n">>), PyNone))
    ELSE LET outcome == function_handler(function_name, function_arguments, backend)
         IN CASE outcome.kind = "return" -> Return(outcome.value)
              [] outcome.kind = "raise" /\ outcome.exc = "TypeError" ->
                   Return(create_error_response(
                       PyStr(<<" in execute_function_call Invalid arguments for function '",
                               function_name, "'">>),
                       PyStr(outcome.text)))
              [] OTHER ->
                   Return(create_error_response(
                       PyStr(<<" in execute_function_call Error executing function '",
                               function_name, "'">>),
                       PyStr(outcome.text)))

(***************************************************************************)
(* messages.py: the splitter.                                              *)
(***************************************************************************)
PyGetDefault(v, k, default) == IF k \in DOMAIN v.d THEN v.d[k] ELSE default

\* IsImageResponse without the test of the type
IsImageResponse_AnyType(tool_result) ==
    /\ IsDict(tool_result)
    /\ IsDict(PyGet(tool_result, "data"))
    /\ "image" \in DOMAIN PyGet(tool_result, "data").d

IsImageResponse(tool_result) ==
    /\ IsDict(tool_result)
    /\ PyGet(tool_result, "type") = PyStr(<<"success">>)
    /\ IsDict(PyGet(tool_result, "data"))
    /\ "image" \in DOMAIN PyGet(tool_result, "data").d

\* create_simplified_tool_response that replaces the image in a copy of the
\* data and keeps every other entry
create_simplified_tool_response_KeepsOtherFields(tool_result) ==
    IF IsImageResponse(tool_result)
    THEN PyDict([type |-> PyStr(<<"success">>),
                 data |-> PyDict([k \in DOMAIN tool_result.d.data.d |->
                                    IF k = "image" THEN PyStr(<<"generated successfully">>)
                                    ELSE tool_result.d.data.d[k]])])
    ELSE tool_result

\* create_simplified_tool_response that strips nothing
create_simplified_tool_response_KeepsImage(tool_result) == tool_result

create_simplified_tool_response(tool_result) ==
    IF IsImageResponse(tool_result)
    THEN PyDict([type |-> PyStr(<<"success">>),
                 data |-> PyDict(
                     [chart_type |-> PyGetDefault(tool_result.d.data, "chart_type",
                                                  PyStr(<<"chart">>)),
                      title |-> PyGetDefault(tool_result.d.data, "title",
                                             PyStr(<<"Chart">>)),
                      image |-> PyStr(<<"generated successfully">>)])])
    ELSE tool_result

(***************************************************************************)
(* The LLM (core/llm_client.py, LLMClient.respond) and what it may reply.  *)
(***************************************************************************)
\* argument texts the LLM may send, and json.loads of them
BarArgsText == "{\"categories\": [\"Jan\"], \"values\": [1], \"title\": \"Loans by month\", \"x_label\": \"m\", \"y_label\": \"n\", \"palette_type\": \"CATEGORICAL\", \"value_type\": \"count\"}"
SqlArgsText == "{\"sql_query\": \"SELECT 1\", \"explanation\": \"Loans closed last month\"}"
ResolveArgsText == "{\"user_input\": \"acme\", \"column\": \"name\", \"table\": \"lenders\"}"
MalformedArgsText == "{\"sql_query\": \"SELECT"

json_loads(text) ==
    CASE text = BarArgsText ->
           Return(PyDict([categories |-> PyList(<<PyStr(<<"Jan">>)>>),
                          values |-> PyList(<<PyStr(<<"1">>)>>),
                          title |-> PyStr(<<"Loans by month">>),
                          x_label |-> PyStr(<<"m">>),
                          y_label |-> PyStr(<<"n">>),
                          palette_type |-> PyStr(<<"CATEGORICAL">>),
                          value_type |-> PyStr(<<"count">>)]))
      [] text = SqlArgsText ->
           Return(PyDict([sql_query |-> PyStr(<<"SELECT 1">>),
                          explanation |-> PyStr(<<"Loans closed last month">>)]))
      [] text = ResolveArgsText ->
           Return(PyDict([user_input |-> PyStr(<<"acme">>),
                          column |-> PyStr(<<"name">>),
                          table |-> PyStr(<<"lenders">>)]))
      [] OTHER -> Raise("JSONDecodeError", <<"Unterminated string">>)

\* a tool call as the LLM requests it and as lines 194-201 copy it
ToolCall(id, name, arguments) ==
    [id |-> id, type |-> "function",
     function |-> [name |-> name, arguments |-> arguments]]

\* the requests the LLM draws from: registered and unregistered names,
\* fitting, unfitting and unparsable arguments, repeated and distinct ids
ToolCallRequests ==
    {ToolCall("call_1", "create_bar_chart", BarArgsText),
     ToolCall("call_1", "resolve_name", ResolveArgsText),
     ToolCall("call_2", "resolve_name", MalformedArgsText),
     ToolCall("call_3", "lookup_customer", SqlArgsText)}

ToolCallSeqs(n) ==
    UNION {[1..k -> ToolCallRequests] : k \in 1..n}

Min(a, b) == IF a < b THEN a ELSE b

LLMContents == {PyNone, PyStr(<<"Here is what I found.">>)}

\* what chat.completions.create may do when `left` more tool calls may be
\* requested: raise, answer without choices, or answer with one message:
\* content None or text with tool_calls None or an empty list, or content
\* None with a list of tool calls
LLMOutcomes(left) ==
    {Raise("APIError", <<"connection error">>)}
    \cup {Return([choices |-> <<>>])}
    \cup {Return([choices |-> <<[message |-> [content |-> c, tool_calls |-> tcs]]>>]) :
            c \in LLMContents, tcs \in {PyNone, PyList(<<>>)}}
    \cup {Return([choices |-> <<[message |-> [content |-> PyNone,
                                               tool_calls |-> PyList(l)]]>>]) :
            l \in ToolCallSeqs(Min(MaxCallsPerReply, left))}

\* respond without its try/except: a failed call raises to the caller
respond_Propagates(outcome) ==
    IF outcome.kind = "raise" THEN outcome
    ELSE Return([t |-> "ChatCompletion", choices |-> outcome.value.choices])

\* LLMClient.respond: the completion, or None when the call raised
respond(outcome) ==
    IF outcome.kind = "raise" THEN Return(PyNone)
    ELSE Return([t |-> "ChatCompletion", choices |-> outcome.value.choices])

(***************************************************************************)
(* LLMClient.process_user_request.                                         *)
(***************************************************************************)
VARIABLES
    conversation_history,   \* the list the run appends to
    input_history,          \* the list as it was handed to the run
    depth, max_depth,
    pc,                     \* "entry", "dispatch", "returned" or "raised"
    completion,             \* what respond returned in the current frame
    tool_calls, tc_index,   \* the for loop over tool_calls, and its position
    execution_result,       \* what execute_function_call last returned
    simplified,             \* what create_simplified_tool_response last returned
    llm_calls,              \* the number of calls of respond in the run
    function_call,          \* DispatchSpec: the call handed to execute_function_call
    tool_result,            \* SplitSpec: the result handed to the splitter
    recent_event_ids,       \* UserManager.recent_event_ids
    users,                  \* UserManager.users: user id -> the id of its history deque
    heap,                   \* the lists and deques alive, by object id
    awaiting,               \* slack_events invocations waiting at `await request.json()`
    current,                \* the slack_events invocation past its await, and its locals
    handled,                \* the invocations that ended: body, whether a run started, answer
    delivery,               \* the invocation that went past line 65 last: output of its run, Slack calls made
    replies,                \* the replies the LLM gives, in order, to each of two runs
    twins                   \* what the two runs did, each with its own tool outcomes

\* the state of PlatformBase, its UserManager and its requests
platform_vars == <<recent_event_ids, users, heap, awaiting, current, handled, delivery>>

\* two runs on the same replies
twin_vars == <<replies, twins>>

\* the state of one run of process_user_request, of the dispatcher and of the splitter
run_vars == <<conversation_history, input_history, depth, max_depth, pc, completion,
              tool_calls, tc_index, execution_result, simplified, llm_calls,
              function_call, tool_result>>

vars == <<conversation_history, input_history, depth, max_depth, pc, completion,
          tool_calls, tc_index, execution_result, simplified, llm_calls,
          function_call, tool_result,
          recent_event_ids, users, heap, awaiting, current, handled, delivery,
          replies, twins>>

\* no pair of runs is under way
TwinIdle ==
    /\ replies = <<>>
    /\ twins = <<>>

\* PlatformBase.__init__ and UserManager.__init__: nothing seen, no user, no request
PlatformIdle ==
    /\ recent_event_ids = {}
    /\ users = <<>>
    /\ heap = <<>>
    /\ awaiting = 0
    /\ current = [pc |-> "idle"]
    /\ handled = <<>>
    /\ delivery = [run |-> <<>>, calls |-> <<>>]

assistant_clarification_message ==
    [role |-> "assistant",
     content |-> PyStr(<<"I'm sorry, I couldn't understand the query clearly. ",
                         "Could you please rephrase or provide more details about what you're looking for?">>)]

SystemMessage == [role |-> "system", content |-> PyStr(<<"You are a data analyst.">>)]
UserMessage == [role |-> "user", content |-> PyStr(<<"How many loans closed last month?">>)]

\* what slack_events hands over: the system prompt, the stored history of
\* user and assistant texts, the new user message
InputConversations ==
    {<<SystemMessage, UserMessage>>,
     <<SystemMessage, UserMessage,
       [role |-> "assistant", content |-> PyStr(<<"42 loans.">>)], UserMessage>>}

\* the tool calls requested so far in the run
RECURSIVE CallsRequested(_)
CallsRequested(conv) ==
    IF conv = <<>> THEN 0
    ELSE (IF "tool_calls" \in DOMAIN Head(conv) THEN Len(Head(conv).tool_calls) ELSE 0)
         + CallsRequested(Tail(conv))

\* DepthExceeded with the comparison off by one: one more round is allowed
DepthExceeded_OffByOne(d, m) == d > m + 1

\* DepthExceeded with >= for >: the last round is cut
DepthExceeded_Inclusive(d, m) == d >= m

\* line 165
DepthExceeded(d, m) == d > m

\* line 171
InvalidCompletion(c) ==
    \/ IsNone(c)
    \/ c.choices = <<>>
    \/ /\ IsNone(c.choices[1].message.content)
       /\ IsNone(c.choices[1].message.tool_calls)

\* AssistantToolCallMessage that leaves the requested calls out of the message
AssistantToolCallMessage_NoToolCalls(response_message) ==
    [role |-> "assistant", content |-> response_message.content]

\* lines 190-204
AssistantToolCallMessage(response_message) ==
    [role |-> "assistant",
     content |-> response_message.content,
     tool_calls |-> [i \in 1..Len(response_message.tool_calls.l) |->
                       LET tc == response_message.tool_calls.l[i]
                       IN ToolCall(tc.id, tc.function.name, tc.function.arguments)]]

\* ToolResponse that links every tool message to the function name
\* instead of the id of the request
ToolResponse_NameAsId(tool_call, result) ==
    IF IsNone(result)
    THEN [role |-> "tool", tool_call_id |-> tool_call.function.name,
          content |-> PyStr(<<"Function '", tool_call.function.name,
                              "' failed to execute">>)]
    ELSE IF IsDict(result)
    THEN [role |-> "tool", tool_call_id |-> tool_call.function.name,
          content |-> PyStr(json_dumps(create_simplified_tool_response(result))),
          original_content |-> result]
    ELSE [role |-> "tool", tool_call_id |-> tool_call.function.name,
          content |-> result]

\* lines 219-239: the tool message for one call
ToolResponse(tool_call, result) ==
    IF IsNone(result)
    THEN [role |-> "tool", tool_call_id |-> tool_call.id,
          content |-> PyStr(<<"Function '", tool_call.function.name,
                              "' failed to execute">>)]
    ELSE IF IsDict(result)
    THEN [role |-> "tool", tool_call_id |-> tool_call.id,
          content |-> PyStr(json_dumps(create_simplified_tool_response(result))),
          original_content |-> result]
    ELSE [role |-> "tool", tool_call_id |-> tool_call.id,
          content |-> result]

Init ==
    /\ conversation_history \in InputConversations
    /\ input_history = conversation_history
    /\ depth = 0
    /\ max_depth \in 0..MaxDepthBound
    /\ pc = "entry"
    /\ completion = PyNone
    /\ tool_calls = <<>>
    /\ tc_index = 1
    /\ execution_result = PyNone
    /\ simplified = PyNone
    /\ llm_calls = 0
    /\ function_call = PyNone
    /\ tool_result = PyNone
    /\ PlatformIdle
    /\ TwinIdle

\* MaxDepthReached that gives up on the input alone: the messages of the
\* run are dropped before the clarification is appended
MaxDepthReached_DropsRun ==
    /\ pc = "entry"
    /\ DepthExceeded(depth, max_depth)
    /\ conversation_history' = Append(input_history, assistant_clarification_message)
    /\ pc' = "returned"
    /\ UNCHANGED <<input_history, depth, max_depth, completion, tool_calls, tc_index,
                   execution_result, simplified, llm_calls, function_call, tool_result>>
    /\ UNCHANGED platform_vars
    /\ UNCHANGED twin_vars

\* lines 165-168
MaxDepthReached ==
    /\ pc = "entry"
    /\ DepthExceeded(depth, max_depth)
    /\ conversation_history' = Append(conversation_history, assistant_clarification_message)
    /\ pc' = "returned"
    /\ UNCHANGED <<input_history, depth, max_depth, completion, tool_calls, tc_index,
                   execution_result, simplified, llm_calls, function_call, tool_result>>
    /\ UNCHANGED platform_vars
    /\ UNCHANGED twin_vars

\* lines 170-206
CallLLM ==
    /\ pc = "entry"
    /\ ~DepthExceeded(depth, max_depth)
    /\ \E outcome \in LLMOutcomes(MaxCallsPerRun - CallsRequested(conversation_history)) :
         LET r == respond(outcome) IN
         /\ llm_calls' = llm_calls + 1
         /\ IF r.kind = "raise"
            THEN /\ pc' = "raised"
                 /\ UNCHANGED <<conversation_history, completion, tool_calls, tc_index>>
            ELSE /\ completion' = r.value
                 /\ IF InvalidCompletion(r.value)
                    THEN /\ conversation_history' =
                              Append(conversation_history, assistant_clarification_message)
                         /\ pc' = "returned"
                         /\ UNCHANGED <<tool_calls, tc_index>>
                    ELSE LET response_message == r.value.choices[1].message IN
                         IF ~Truthy(response_message.tool_calls)
                         THEN /\ conversation_history' =
                                   Append(conversation_history,
                                          [role |-> "assistant",
                                           content |-> response_message.content])
                              /\ pc' = "returned"
                              /\ UNCHANGED <<tool_calls, tc_index>>
                         ELSE /\ conversation_history' =
                                   Append(conversation_history,
                                          AssistantToolCallMessage(response_message))
                              /\ tool_calls' = response_message.tool_calls.l
                              /\ tc_index' = 1
                              /\ pc' = "dispatch"
    /\ UNCHANGED <<input_history, depth, max_depth, execution_result, simplified,
                   function_call, tool_result>>
    /\ UNCHANGED platform_vars
    /\ UNCHANGED twin_vars

\* the loop without the branch of lines 219-225: a call whose result is None
\* gets no tool message
DispatchToolCall_DropsNone ==
    /\ pc = "dispatch"
    /\ tc_index <= Len(tool_calls)
    /\ \E backend \in BackendOutcomes :
         LET tool_call == tool_calls[tc_index]
             parsed == json_loads(tool_call.function.arguments)
             function_args == IF parsed.kind = "raise" THEN PyDict(<<>>) ELSE parsed.value
         IN \E r \in {execute_function_call(tool_call.function.name, function_args, backend)} :
            IF r.kind = "raise"
            THEN /\ pc' = "raised"
                 /\ UNCHANGED <<conversation_history, tc_index, execution_result, simplified>>
            ELSE /\ execution_result' = r.value
                 /\ simplified' = IF IsDict(r.value)
                                  THEN create_simplified_tool_response(r.value)
                                  ELSE simplified
                 /\ conversation_history' =
                      IF IsNone(r.value) THEN conversation_history
                      ELSE Append(conversation_history, ToolResponse(tool_call, r.value))
                 /\ tc_index' = tc_index + 1
                 /\ pc' = "dispatch"
    /\ UNCHANGED <<input_history, depth, max_depth, completion, tool_calls, llm_calls,
                   function_call, tool_result>>
    /\ UNCHANGED platform_vars
    /\ UNCHANGED twin_vars

\* the loop with `continue` in the except of lines 213-215: a call whose
\* arguments do not parse is passed over
DispatchToolCall_SkipsUnparsed ==
    /\ pc = "dispatch"
    /\ tc_index <= Len(tool_calls)
    /\ \E backend \in BackendOutcomes :
         LET tool_call == tool_calls[tc_index]
             parsed == json_loads(tool_call.function.arguments)
         IN IF parsed.kind = "raise"
            THEN /\ tc_index' = tc_index + 1
                 /\ pc' = "dispatch"
                 /\ UNCHANGED <<conversation_history, execution_result, simplified>>
            ELSE \E r \in {execute_function_call(tool_call.function.name, parsed.value,
                                                 backend)} :
                 IF r.kind = "raise"
                 THEN /\ pc' = "raised"
                      /\ UNCHANGED <<conversation_history, tc_index, execution_result,
                                     simplified>>
                 ELSE /\ execution_result' = r.value
                      /\ simplified' = IF IsDict(r.value)
                                       THEN create_simplified_tool_response(r.value)
                                       ELSE simplified
                      /\ conversation_history' =
                           Append(conversation_history, ToolResponse(tool_call, r.value))
                      /\ tc_index' = tc_index + 1
                      /\ pc' = "dispatch"
    /\ UNCHANGED <<input_history, depth, max_depth, completion, tool_calls, llm_calls,
                   function_call, tool_result>>
    /\ UNCHANGED platform_vars
    /\ UNCHANGED twin_vars

\* lines 209-241: one iteration of the loop over tool_calls
DispatchToolCall ==
    /\ pc = "dispatch"
    /\ tc_index <= Len(tool_calls)
    /\ \E backend \in BackendOutcomes :
         LET tool_call == tool_calls[tc_index]
             parsed == json_loads(tool_call.function.arguments)
             function_args == IF parsed.kind = "raise" THEN PyDict(<<>>) ELSE parsed.value
         IN \E r \in {execute_function_call(tool_call.function.name, function_args, backend)} :
            IF r.kind = "raise"
            THEN /\ pc' = "raised"
                 /\ UNCHANGED <<conversation_history, tc_index, execution_result, simplified>>
            ELSE /\ execution_result' = r.value
                 /\ simplified' = IF IsDict(r.value)
                                  THEN create_simplified_tool_response(r.value)
                                  ELSE simplified
                 /\ conversation_history' =
                      Append(conversation_history, ToolResponse(tool_call, r.value))
                 /\ tc_index' = tc_index + 1
                 /\ pc' = "dispatch"
    /\ UNCHANGED <<input_history, depth, max_depth, completion, tool_calls, llm_calls,
                   function_call, tool_result>>
    /\ UNCHANGED platform_vars
    /\ UNCHANGED twin_vars

\* Recurse that returns instead when the last tool call of the turn failed
Recurse_StopsOnFailure ==
    /\ pc = "dispatch"
    /\ tc_index > Len(tool_calls)
    /\ IF \/ IsNone(execution_result)
          \/ IsDict(execution_result) /\ PyGet(execution_result, "type") = PyStr(<<"error">>)
       THEN depth' = depth /\ pc' = "returned"
       ELSE depth' = depth + 1 /\ pc' = "entry"
    /\ UNCHANGED <<conversation_history, input_history, max_depth, completion, tool_calls,
                   tc_index, execution_result, simplified, llm_calls,
                   function_call, tool_result>>
    /\ UNCHANGED platform_vars
    /\ UNCHANGED twin_vars

\* Recurse that does not wait for the end of the loop: it may go to the
\* next LLM round-trip as soon as one tool call of the turn is answered
Recurse_BeforeLoopEnds ==
    /\ pc = "dispatch"
    /\ tc_index > 1
    /\ depth' = depth + 1
    /\ pc' = "entry"
    /\ UNCHANGED <<conversation_history, input_history, max_depth, completion, tool_calls,
                   tc_index, execution_result, simplified, llm_calls,
                   function_call, tool_result>>
    /\ UNCHANGED platform_vars
    /\ UNCHANGED twin_vars

\* the recursion with depth=depth: the next step starts at the same depth
Recurse_KeepsDepth ==
    /\ pc = "dispatch"
    /\ tc_index > Len(tool_calls)
    /\ depth' = depth
    /\ pc' = "entry"
    /\ UNCHANGED <<conversation_history, input_history, max_depth, completion, tool_calls,
                   tc_index, execution_result, simplified, llm_calls,
                   function_call, tool_result>>
    /\ UNCHANGED platform_vars
    /\ UNCHANGED twin_vars

\* line 244
Recurse ==
    /\ pc = "dispatch"
    /\ tc_index > Len(tool_calls)
    /\ depth' = depth + 1
    /\ pc' = "entry"
    /\ UNCHANGED <<conversation_history, input_history, max_depth, completion, tool_calls,
                   tc_index, execution_result, simplified, llm_calls,
                   function_call, tool_result>>
    /\ UNCHANGED platform_vars
    /\ UNCHANGED twin_vars

Next == MaxDepthReached \/ CallLLM \/ DispatchToolCall \/ Recurse

Spec == Init /\ [][Next]_vars

(***************************************************************************)
(* execute_function_call on its own: every registered name and one that is *)
(* not registered, arguments that fit each kind of handler, an empty       *)
(* mapping and a list, and every outcome of the backend.                   *)
(***************************************************************************)
DispatchNames == FUNCTION_REGISTRY \cup {"lookup_customer"}

DispatchArguments ==
    {json_loads(BarArgsText).value, json_loads(SqlArgsText).value,
     json_loads(ResolveArgsText).value, PyDict(<<>>), PyList(<<>>)}

DispatchInit ==
    /\ function_call \in [function_name : DispatchNames,
                          function_arguments : DispatchArguments,
                          backend : BackendOutcomes]
    /\ pc = "call"
    /\ execution_result = PyNone
    /\ conversation_history = <<>>
    /\ input_history = <<>>
    /\ depth = 0
    /\ max_depth = 0
    /\ completion = PyNone
    /\ tool_calls = <<>>
    /\ tc_index = 1
    /\ simplified = PyNone
    /\ llm_calls = 0
    /\ tool_result = PyNone
    /\ PlatformIdle
    /\ TwinIdle

\* router.py lines 76-123
Dispatch ==
    /\ pc = "call"
    /\ LET r == execute_function_call(function_call.function_name,
                                      function_call.function_arguments,
                                      function_call.backend)
       IN IF r.kind = "raise"
          THEN pc' = "raised" /\ UNCHANGED execution_result
          ELSE pc' = "called" /\ execution_result' = r.value
    /\ UNCHANGED <<conversation_history, input_history, depth, max_depth, completion,
                   tool_calls, tc_index, simplified, llm_calls, function_call,
                   tool_result>>
    /\ UNCHANGED platform_vars
    /\ UNCHANGED twin_vars

DispatchNext == Dispatch

DispatchSpec == DispatchInit /\ [][DispatchNext]_vars

(***************************************************************************)
(* create_simplified_tool_response on its own: None, a text, and mappings  *)
(* with and without a type, a message and a data entry, the data being     *)
(* None, a text or a mapping with any of four keys.                        *)
(***************************************************************************)
SplitDataKeys == {"chart_type", "title", "image", "message"}

SplitDataValues ==
    {PyNone, PyStr(<<"rows">>)}
    \cup {PyDict(f) : f \in UNION {[K -> {PyStr(<<"v">>)}] : K \in SUBSET SplitDataKeys}}

SplitTypeEntries ==
    {<<>>, [type |-> PyStr(<<"success">>)], [type |-> PyStr(<<"error">>)]}

SplitDataEntries == {<<>>} \cup {[data |-> v] : v \in SplitDataValues}

SplitMessageEntries == {<<>>, [message |-> PyStr(<<"done">>)]}

SplitInputs ==
    {PyNone, PyStr(<<"| 42 |">>)}
    \cup {PyDict(a @@ b @@ c) :
            a \in SplitTypeEntries, b \in SplitDataEntries, c \in SplitMessageEntries}

SplitInit ==
    /\ tool_result \in SplitInputs
    /\ pc = "split"
    /\ simplified = PyNone
    /\ conversation_history = <<>>
    /\ input_history = <<>>
    /\ depth = 0
    /\ max_depth = 0
    /\ completion = PyNone
    /\ tool_calls = <<>>
    /\ tc_index = 1
    /\ execution_result = PyNone
    /\ llm_calls = 0
    /\ function_call = PyNone
    /\ PlatformIdle
    /\ TwinIdle

\* messages.py lines 160-195
Split ==
    /\ pc = "split"
    /\ simplified' = create_simplified_tool_response(tool_result)
    /\ pc' = "split_done"
    /\ UNCHANGED <<conversation_history, input_history, depth, max_depth, completion,
                   tool_calls, tc_index, execution_result, llm_calls, function_call,
                   tool_result>>
    /\ UNCHANGED platform_vars
    /\ UNCHANGED twin_vars

SplitNext == Split

SplitSpec == SplitInit /\ [][SplitNext]_vars

(***************************************************************************)
(* process_user_request as a function: the conversations a run started on  *)
(* `conv` at depth d may return, over every behaviour of the LLM and of    *)
(* the handlers, when the LLM requests at most `left` tool calls.  It is   *)
(* the run of the actions above, taken as one step of slack_events.        *)
(***************************************************************************)
\* lines 209-241: the loop over tool_calls from call i on
RECURSIVE DispatchLoop(_, _, _)
DispatchLoop(conv, calls, i) ==
    IF i > Len(calls) THEN {Return(conv)}
    ELSE LET tool_call == calls[i]
             parsed == json_loads(tool_call.function.arguments)
             function_args == IF parsed.kind = "raise" THEN PyDict(<<>>) ELSE parsed.value
         IN UNION {IF r.kind = "raise" THEN {r}
                   ELSE DispatchLoop(Append(conv, ToolResponse(tool_call, r.value)),
                                     calls, i + 1) :
                     r \in {execute_function_call(tool_call.function.name, function_args, b) :
                              b \in BackendOutcomes}}

RECURSIVE process_user_request(_, _, _, _)
process_user_request(conv, d, m, left) ==
    IF DepthExceeded(d, m)
    THEN {Return(Append(conv, assistant_clarification_message))}
    ELSE UNION {
      LET r == respond(outcome) IN
      IF r.kind = "raise" THEN {r}
      ELSE IF InvalidCompletion(r.value)
      THEN {Return(Append(conv, assistant_clarification_message))}
      ELSE LET response_message == r.value.choices[1].message IN
           IF ~Truthy(response_message.tool_calls)
           THEN {Return(Append(conv, [role |-> "assistant",
                                      content |-> response_message.content]))}
           ELSE UNION {
             IF after.kind = "raise" THEN {after}
             ELSE process_user_request(after.value, d + 1, m,
                                       left - Len(response_message.tool_calls.l)) :
               after \in DispatchLoop(
                           Append(conv, AssistantToolCallMessage(response_message)),
                           response_message.tool_calls.l, 1)} :
      outcome \in LLMOutcomes(left)}

(***************************************************************************)
(* core/user_manager.py, core/user.py, messages.py: what slack_events      *)
(* calls before the run.                                                   *)
(***************************************************************************)
\* UserManager.is_duplicate_event: what it returns and the set it leaves;
\* past PRUNE_ABOVE ids the set is cut to PRUNE_TO of them, which ones
\* being up to the order of the set
PRUNE_ABOVE == 1000
PRUNE_TO == 500

is_duplicate_event(ids, event_id) ==
    IF event_id \in ids
    THEN {[duplicate |-> TRUE, ids |-> ids]}
    ELSE IF Cardinality(ids \cup {event_id}) > PRUNE_ABOVE
    THEN {[duplicate |-> FALSE, ids |-> kept] :
            kept \in {k \in SUBSET (ids \cup {event_id}) : Cardinality(k) = PRUNE_TO}}
    ELSE {[duplicate |-> FALSE, ids |-> ids \cup {event_id}]}

\* body.get("event_id") and body.get("event", {})
BodyEventId(body) == IF "event_id" \in DOMAIN body THEN body.event_id ELSE "None"
BodyEvent(body) == IF "event" \in DOMAIN body THEN body.event ELSE [type |-> "None"]

\* messages.validate_event: the early answer, or None for an app_mention
\* seen for the first time, and the set of ids it leaves
validate_event(body, ids) ==
    IF "challenge" \in DOMAIN body
    THEN {[response |-> [challenge |-> body.challenge], ids |-> ids]}
    ELSE {IF d.duplicate
          THEN [response |-> [status |-> "duplicate"], ids |-> d.ids]
          ELSE IF BodyEvent(body).type # "app_mention"
          THEN [response |-> [status |-> "error"], ids |-> d.ids]
          ELSE [response |-> PyNone, ids |-> d.ids] :
            d \in is_duplicate_event(ids, BodyEventId(body))}

BOT_NAME == "EIRANA"
MentionTokens == {"<@U0BOT>"}

\* messages.extract_query_and_metadata: the mention tags replaced by the bot name
\* (the texts drawn have no space at either end, so strip() leaves them alone)
extract_query_and_metadata(event) ==
    [query |-> PyStr([i \in 1..Len(event.text) |->
                        IF event.text[i] \in MentionTokens THEN BOT_NAME
                        ELSE event.text[i]]),
     channel_id |-> event.channel,
     user_id |-> event.user]

\* the object id of the history deque of a user, and of the lists an
\* invocation creates
HistoryId(user_id) == <<"history", user_id>>
ListIds == {<<"list", "a">>, <<"list", "b">>}
NewList(h) == CHOOSE id \in ListIds : id \notin DOMAIN h

\* h with object id bound to the sequence items
Bind(h, id, items) == [x \in DOMAIN h \cup {id} |-> IF x = id THEN items ELSE h[x]]

\* User.history = deque(maxlen=max_history)
MAX_HISTORY == 100

\* deque.append on a deque without maxlen
deque_append_Unbounded(items, msg) == Append(items, msg)

\* deque.append on a deque of maxlen MAX_HISTORY: the oldest entry leaves
deque_append(items, msg) ==
    IF Len(items) >= MAX_HISTORY THEN Append(Tail(items), msg) ELSE Append(items, msg)

\* User.add_message on the heap
add_message(h, user_id, role, content) ==
    [h EXCEPT ![HistoryId(user_id)] = deque_append(@, [role |-> role, content |-> content])]

\* the default of max_depth, which slack_events leaves in place
DEFAULT_MAX_DEPTH == 5

\* UserManager.get_or_create_user: a new user starts with an empty history
get_or_create_user(us, h, user_id) ==
    IF user_id \in DOMAIN us
    THEN [users |-> us, heap |-> h]
    ELSE [users |-> [x \in DOMAIN us \cup {user_id} |->
                       IF x = user_id THEN HistoryId(user_id) ELSE us[x]],
          heap |-> Bind(h, HistoryId(user_id), <<>>)]

\* lines 93-104 with neither copy: get_history hands out the deque itself
\* and temp_history is that same object
prepare_conversation_SharesHistory(h, user_id, user_query) ==
    [heap |-> [h EXCEPT ![HistoryId(user_id)] =
                 <<SystemMessage>> \o Append(@, [role |-> "user", content |-> user_query])],
     conversation_history |-> HistoryId(user_id),
     temp_history |-> HistoryId(user_id)]

\* lines 93-104 where get_history hands out the deque itself: the user
\* message of line 98 lands in the stored history
prepare_conversation_NoListCopy(h, user_id, user_query) ==
    LET h1 == [h EXCEPT ![HistoryId(user_id)] =
                 Append(@, [role |-> "user", content |-> user_query])]
        temp_id == NewList(h1)
    IN [heap |-> Bind(h1, temp_id, <<SystemMessage>> \o h1[HistoryId(user_id)]),
        conversation_history |-> HistoryId(user_id),
        temp_history |-> temp_id]

\* lines 93-104: get_history makes a list of the deque, the user message is
\* appended to that list, temp_history is a copy of it with the system
\* prompt in front
prepare_conversation(h, user_id, user_query) ==
    LET conv_id == NewList(h)
        h1 == Bind(h, conv_id,
                   Append(h[HistoryId(user_id)], [role |-> "user", content |-> user_query]))
        temp_id == NewList(h1)
    IN [heap |-> Bind(h1, temp_id, <<SystemMessage>> \o h1[conv_id]),
        conversation_history |-> conv_id,
        temp_history |-> temp_id]

(***************************************************************************)
(* core/platform.py lines 123-173: the delivery to Slack.                  *)
(***************************************************************************)
UsersInfoOutcomes == {"ok", "SlackApiError"}
UploadOutcomes == {"ok", "SlackApiError", "Exception"}
PostOutcomes == {"ok", "SlackApiError", "Exception"}

\* lines 124-127: the place of the last tool message whose _original_content
\* is a dict, 0 when there is none
last_tool_response(response) ==
    LET found == {i \in 1..Len(response) :
                    /\ response[i].role = "tool"
                    /\ "original_content" \in DOMAIN response[i]
                    /\ IsDict(response[i].original_content)}
    IN IF found = {} THEN 0 ELSE CHOOSE i \in found : \A j \in found : j <= i

\* lines 137-145: the prefix up to the comma is dropped and the rest decoded
b64decode(text) == IF text = "UE5H" THEN "PNG" ELSE "bytes"

decode_image(image_base64) ==
    IF Head(image_base64.s) = "data:image/png;base64,"
    THEN b64decode(image_base64.s[2])
    ELSE b64decode(image_base64.s[1])

\* lines 129-164: the Slack calls made for the image, each with the way it
\* ended, or the exception that leaves slack_events; a failed upload is
\* caught at lines 159-162
upload_image(response, channel_id) ==
    IF last_tool_response(response) = 0 THEN {Return(<<>>)}
    ELSE LET content == response[last_tool_response(response)].original_content
             data == PyGet(content, "data")
         IN IF ~IsDict(data)
            THEN {Raise("TypeError", <<"'NoneType' object is not subscriptable">>)}
            ELSE IF "image" \notin DOMAIN data.d
            THEN {Raise("KeyError", <<"'image'">>)}
            ELSE IF ~Truthy(data.d.image) \/ ~IsStr(data.d.image)
            THEN {Return(<<>>)}
            ELSE {Return(<<[method |-> "files_upload_v2",
                            channel |-> channel_id,
                            file |-> decode_image(data.d.image),
                            filename |-> PyGetDefault(data, "title",
                                                      PyStr(<<"visual.png">>)),
                            outcome |-> upload]>>) : upload \in UploadOutcomes}

\* lines 123-173: the calls made and the answer of slack_events; a failed
\* post is caught at line 170 when it is a SlackApiError
deliver(response, channel_id, output) ==
    UNION {IF up.kind = "raise"
           THEN {[calls |-> <<>>, response |-> [exception |-> up.exc]]}
           ELSE {[calls |-> Append(up.value, [method |-> "chat_postMessage",
                                              channel |-> channel_id,
                                              text |-> output,
                                              outcome |-> post]),
                  response |-> IF post = "Exception"
                               THEN [exception |-> "Exception"]
                               ELSE [status |-> "ok"]] : post \in PostOutcomes}
           : up \in upload_image(response, channel_id)}

(***************************************************************************)
(* core/platform.py: PlatformBase.slack_events.  The handler waits once,   *)
(* at `await request.json()`; everything after it is synchronous, so the   *)
(* invocations past their await run one at a time.                         *)
(***************************************************************************)
\* the bodies Slack posts: the URL verification, two mentions by one user,
\* and an event that is not a mention
ChallengeBody == [type |-> "url_verification", challenge |-> "c0ffee"]

MentionBody(event_id, text) ==
    [event_id |-> event_id,
     event |-> [type |-> "app_mention", text |-> text, channel |-> "C1", user |-> "U1"]]

EventBodies ==
    {ChallengeBody,
     MentionBody("Ev1", <<"<@U0BOT>", " how many loans closed last month?">>),
     MentionBody("Ev2", <<"<@U0BOT>", " plot them by month">>),
     [event_id |-> "Ev3",
      event |-> [type |-> "message", text |-> <<"hello">>, channel |-> "C1", user |-> "U1"]]}

PlatformInit ==
    /\ PlatformIdle
    /\ TwinIdle
    /\ conversation_history = <<>>
    /\ input_history = <<>>
    /\ depth = 0
    /\ max_depth = DEFAULT_MAX_DEPTH
    /\ pc = "platform"
    /\ completion = PyNone
    /\ tool_calls = <<>>
    /\ tc_index = 1
    /\ execution_result = PyNone
    /\ simplified = PyNone
    /\ llm_calls = 0
    /\ function_call = PyNone
    /\ tool_result = PyNone

\* a POST reaches /slack/events: line 61
Receive ==
    /\ awaiting + Len(handled) + (IF current.pc = "idle" THEN 0 ELSE 1) < MaxDeliveries
    /\ awaiting' = awaiting + 1
    /\ UNCHANGED <<recent_event_ids, users, heap, current, handled, delivery>>
    /\ UNCHANGED run_vars
    /\ UNCHANGED twin_vars

\* the invocation as it ends: what it was sent, whether it started a run
\* and what was answered
Ended(body, ran, response) ==
    [body |-> body, ran |-> ran, response |-> response]

\* an invocation whose run has not returned has made no Slack call
NothingDelivered == [run |-> <<>>, calls |-> <<>>]

\* lines 65-104: the body is read, the event validated, the user looked up
\* and the conversation for the run prepared
HandleEvent ==
    /\ awaiting > 0
    /\ current.pc = "idle"
    /\ awaiting' = awaiting - 1
    /\ \E body \in EventBodies :
       \E v \in validate_event(body, recent_event_ids) :
       \E info \in UsersInfoOutcomes :
         /\ recent_event_ids' = v.ids
         /\ IF v.response # PyNone
            THEN /\ handled' = Append(handled, Ended(body, FALSE, v.response))
                 /\ delivery' = NothingDelivered
                 /\ UNCHANGED <<users, heap, current>>
            ELSE IF info # "ok"
            THEN /\ handled' = Append(handled, Ended(body, FALSE, [exception |-> info]))
                 /\ delivery' = NothingDelivered
                 /\ UNCHANGED <<users, heap, current>>
            ELSE LET q == extract_query_and_metadata(body.event)
                     u == get_or_create_user(users, heap, q.user_id)
                 IN IF IsNone(q.query)
                    THEN /\ users' = u.users
                         /\ heap' = u.heap
                         /\ handled' = Append(handled,
                                              Ended(body, FALSE, [status |-> "error"]))
                         /\ delivery' = NothingDelivered
                         /\ UNCHANGED current
                    ELSE LET p == prepare_conversation(u.heap, q.user_id, q.query)
                         IN /\ users' = u.users
                            /\ heap' = p.heap
                            /\ current' = [pc |-> "run", body |-> body,
                                           user_query |-> q.query,
                                           channel_id |-> q.channel_id,
                                           user_id |-> q.user_id,
                                           conversation_history |-> p.conversation_history,
                                           temp_history |-> p.temp_history]
                            /\ delivery' = NothingDelivered
                            /\ UNCHANGED handled
    /\ UNCHANGED run_vars
    /\ UNCHANGED twin_vars

\* h without the lists of the invocation that ends
Release(h) == [id \in DOMAIN h \ ListIds |-> h[id]]

\* lines 107-173: the run on temp_history, the two add_message, the upload
\* of the image and the post of the answer
RunAndDeliver ==
    /\ current.pc = "run"
    /\ \E outcome \in process_user_request(heap[current.temp_history], 0,
                                           DEFAULT_MAX_DEPTH, MaxCallsPerEvent) :
         IF outcome.kind = "raise"
         THEN /\ handled' = Append(handled, Ended(current.body, TRUE,
                                                  [exception |-> outcome.exc]))
              /\ delivery' = NothingDelivered
              /\ heap' = Release(heap)
         ELSE LET h1 == [heap EXCEPT ![current.temp_history] = outcome.value]
                  response == h1[current.temp_history]
                  output == Last(response).content
                  h2 == add_message(
                          add_message(h1, current.user_id, "user", current.user_query),
                          current.user_id, "assistant", output)
              IN \E d \in deliver(h2[current.temp_history], current.channel_id, output) :
                   /\ handled' = Append(handled, Ended(current.body, TRUE, d.response))
                   /\ delivery' = [run |-> response, calls |-> d.calls]
                   /\ heap' = Release(h2)
    /\ current' = [pc |-> "idle"]
    /\ UNCHANGED <<recent_event_ids, users, awaiting>>
    /\ UNCHANGED run_vars
    /\ UNCHANGED twin_vars

PlatformNext == Receive \/ HandleEvent \/ RunAndDeliver

PlatformSpec == PlatformInit /\ [][PlatformNext]_vars

(***************************************************************************)
(* process_user_request on given replies: the run when the LLM gives the   *)
(* replies of a sequence, one per round-trip, and the backend of the j-th  *)
(* dispatched call gives backends[j].  Two such runs on the same replies   *)
(* are made side by side.                                                  *)
(***************************************************************************)
\* lines 209-241 from call i on, `used` calls having been dispatched before
\* this turn
RECURSIVE dispatch_with(_, _, _, _, _)
dispatch_with(conv, calls, i, backends, used) ==
    IF i > Len(calls) THEN Return(conv)
    ELSE LET tool_call == calls[i]
             parsed == json_loads(tool_call.function.arguments)
             function_args == IF parsed.kind = "raise" THEN PyDict(<<>>) ELSE parsed.value
             r == execute_function_call(tool_call.function.name, function_args,
                                        backends[used + i])
         IN IF r.kind = "raise" THEN r
            ELSE dispatch_with(Append(conv, ToolResponse(tool_call, r.value)),
                               calls, i + 1, backends, used)

\* how a run ended, the conversation it leaves and the LLM round-trips it made
RunEnd(terminal, conv, round_trips) ==
    [terminal |-> terminal, conversation |-> conv, round_trips |-> round_trips]

\* the run that stops at the first tool result that is an error or None
RECURSIVE run_with_StopsOnToolError(_, _, _, _, _, _)
run_with_StopsOnToolError(conv, d, m, rs, backends, used) ==
    IF DepthExceeded(d, m)
    THEN RunEnd("max depth", Append(conv, assistant_clarification_message), 0)
    ELSE LET r == respond(Head(rs)) IN
         IF InvalidCompletion(r.value)
         THEN RunEnd("unusable reply", Append(conv, assistant_clarification_message), 1)
         ELSE LET response_message == r.value.choices[1].message IN
              IF ~Truthy(response_message.tool_calls)
              THEN RunEnd("final answer",
                          Append(conv, [role |-> "assistant",
                                        content |-> response_message.content]), 1)
              ELSE LET calls == response_message.tool_calls.l
                       after == dispatch_with(
                                  Append(conv, AssistantToolCallMessage(response_message)),
                                  calls, 1, backends, used)
                   IN IF after.kind = "raise"
                      THEN RunEnd("raised", conv, 1)
                      ELSE IF \E k \in 1..Len(after.value) :
                                /\ after.value[k].role = "tool"
                                /\ \/ "original_content" \notin DOMAIN after.value[k]
                                   \/ PyGet(after.value[k].original_content, "type")
                                        = PyStr(<<"error">>)
                      THEN RunEnd("final answer", after.value, 1)
                      ELSE LET rest == run_with_StopsOnToolError(
                                         after.value, d + 1, m, Tail(rs), backends,
                                         used + Len(calls))
                           IN [rest EXCEPT !.round_trips = @ + 1]

\* lines 135-244 on the replies rs, at depth d
RECURSIVE run_with(_, _, _, _, _, _)
run_with(conv, d, m, rs, backends, used) ==
    IF DepthExceeded(d, m)
    THEN RunEnd("max depth", Append(conv, assistant_clarification_message), 0)
    ELSE LET r == respond(Head(rs)) IN
         IF InvalidCompletion(r.value)
         THEN RunEnd("unusable reply", Append(conv, assistant_clarification_message), 1)
         ELSE LET response_message == r.value.choices[1].message IN
              IF ~Truthy(response_message.tool_calls)
              THEN RunEnd("final answer",
                          Append(conv, [role |-> "assistant",
                                        content |-> response_message.content]), 1)
              ELSE LET calls == response_message.tool_calls.l
                       after == dispatch_with(
                                  Append(conv, AssistantToolCallMessage(response_message)),
                                  calls, 1, backends, used)
                   IN IF after.kind = "raise"
                      THEN RunEnd("raised", conv, 1)
                      ELSE LET rest == run_with(after.value, d + 1, m, Tail(rs), backends,
                                                used + Len(calls))
                           IN [rest EXCEPT !.round_trips = @ + 1]

\* the requests of the replies given to a pair of runs: a chart and a lookup
TwinRequests ==
    {ToolCall("call_1", "create_bar_chart", BarArgsText),
     ToolCall("call_2", "resolve_name", ResolveArgsText)}

\* a reply that requests the calls of l
ToolReply(l) ==
    Return([choices |-> <<[message |-> [content |-> PyNone, tool_calls |-> PyList(l)]]>>])

\* the replies that request nothing: every outcome of LLMOutcomes without a
\* list of tool calls
LastReplies == LLMOutcomes(0)

\* sequences of replies that request n tool calls in all, each reply at
\* least one
RECURSIVE ToolReplySeqs(_)
ToolReplySeqs(n) ==
    IF n = 0 THEN {<<>>}
    ELSE {<<>>}
         \cup UNION {UNION {{<<ToolReply(l)>> \o rest : rest \in ToolReplySeqs(n - k)} :
                              l \in [1..k -> TwinRequests]} : k \in 1..n}

\* replies that request tools, then one that does not
ReplySeqs == {Append(rs, last) : rs \in ToolReplySeqs(MaxTwinCalls), last \in LastReplies}

TwinBackends == [1..MaxTwinCalls -> BackendOutcomes]

TwinInit ==
    /\ replies \in ReplySeqs
    /\ twins = <<>>
    /\ max_depth \in 0..MaxDepthBound
    /\ conversation_history = <<SystemMessage, UserMessage>>
    /\ input_history = conversation_history
    /\ depth = 0
    /\ pc = "twins"
    /\ completion = PyNone
    /\ tool_calls = <<>>
    /\ tc_index = 1
    /\ execution_result = PyNone
    /\ simplified = PyNone
    /\ llm_calls = 0
    /\ function_call = PyNone
    /\ tool_result = PyNone
    /\ PlatformIdle

\* two calls of process_user_request on the same conversation, max_depth
\* and replies; the tool handlers of each run do as they will
RunTwins ==
    /\ pc = "twins"
    /\ LET runs == {run_with(conversation_history, depth, max_depth, replies, b, 0) :
                       b \in TwinBackends}
       IN twins' \in runs \X runs
    /\ pc' = "twins_done"
    /\ UNCHANGED <<conversation_history, input_history, depth, max_depth, completion,
                   tool_calls, tc_index, execution_result, simplified, llm_calls,
                   function_call, tool_result, replies>>
    /\ UNCHANGED platform_vars

TwinNext == RunTwins

TwinSpec == TwinInit /\ [][TwinNext]_vars

(***************************************************************************)
(* UserManager.is_duplicate_event on its own, called any number of times.  *)
(* A few event ids are followed by name; every other id is like any other, *)
(* so of those only the number in the set is kept.                         *)
(***************************************************************************)
TrackedIds == {"Ev1", "Ev2"}

\* the ids a call is made with: a tracked id, an id that is not tracked and
\* is in the set, an id that is not tracked and is not in the set
CallIds == TrackedIds \cup {"seen", "unseen"}

CountedIds(tracked, others) == [tracked |-> tracked, others |-> others]

\* len(self.recent_event_ids)
len(ids) == Cardinality(ids.tracked) + ids.others

\* event_id in self.recent_event_ids
InIds(ids, event_id) ==
    IF event_id \in TrackedIds THEN event_id \in ids.tracked ELSE event_id = "seen"

\* self.recent_event_ids.add(event_id), for an id that is not in the set
AddId(ids, event_id) ==
    IF event_id \in TrackedIds
    THEN CountedIds(ids.tracked \cup {event_id}, ids.others)
    ELSE CountedIds(ids.tracked, ids.others + 1)

\* set(list(ids)[-PRUNE_TO:]): the order of a set is not fixed, so any
\* PRUNE_TO of the ids may be the ones kept
LastOf(ids) ==
    {CountedIds(kept, PRUNE_TO - Cardinality(kept)) :
       kept \in {k \in SUBSET ids.tracked :
                   /\ PRUNE_TO - Cardinality(k) >= 0
                   /\ PRUNE_TO - Cardinality(k) <= ids.others}}

\* is_duplicate_event that never cuts the set
is_duplicate_event_counted_NoPrune(ids, event_id) ==
    IF InIds(ids, event_id)
    THEN {[duplicate |-> TRUE, ids |-> ids]}
    ELSE {[duplicate |-> FALSE, ids |-> AddId(ids, event_id)]}

\* lines 47-56: what the call returns and the set it leaves
is_duplicate_event_counted(ids, event_id) ==
    IF InIds(ids, event_id)
    THEN {[duplicate |-> TRUE, ids |-> ids]}
    ELSE IF len(AddId(ids, event_id)) > PRUNE_ABOVE
    THEN {[duplicate |-> FALSE, ids |-> kept] : kept \in LastOf(AddId(ids, event_id))}
    ELSE {[duplicate |-> FALSE, ids |-> AddId(ids, event_id)]}

DedupInit ==
    /\ recent_event_ids = CountedIds({}, 0)
    /\ function_call = PyNone
    /\ execution_result = PyNone
    /\ pc = "dedup"
    /\ users = <<>>
    /\ heap = <<>>
    /\ awaiting = 0
    /\ current = [pc |-> "idle"]
    /\ handled = <<>>
    /\ delivery = [run |-> <<>>, calls |-> <<>>]
    /\ conversation_history = <<>>
    /\ input_history = <<>>
    /\ depth = 0
    /\ max_depth = 0
    /\ completion = PyNone
    /\ tool_calls = <<>>
    /\ tc_index = 1
    /\ simplified = PyNone
    /\ llm_calls = 0
    /\ tool_result = PyNone
    /\ TwinIdle

\* one call of is_duplicate_event
CheckEvent ==
    /\ pc \in {"dedup", "added", "pruned", "duplicate"}
    /\ \E event_id \in CallIds :
         /\ event_id = "seen" => recent_event_ids.others > 0
         /\ \E r \in is_duplicate_event_counted(recent_event_ids, event_id) :
              /\ function_call' = [event_id |-> event_id]
              /\ execution_result' = r.duplicate
              /\ recent_event_ids' = r.ids
              /\ pc' = IF r.duplicate THEN "duplicate"
                       ELSE IF len(r.ids) < len(recent_event_ids) THEN "pruned"
                       ELSE "added"
    /\ UNCHANGED <<users, heap, awaiting, current, handled, delivery>>
    /\ UNCHANGED <<conversation_history, input_history, depth, max_depth, completion,
                   tool_calls, tc_index, simplified, llm_calls, tool_result>>
    /\ UNCHANGED twin_vars

DedupNext == CheckEvent

DedupSpec == DedupInit /\ [][DedupNext]_vars

(***************************************************************************)
(* User.add_message and User.get_history on their own: two users, each     *)
(* given messages numbered in the order they are added.                    *)
(***************************************************************************)
HistoryUsers == {"U1", "U2"}

\* the k-th message added for a user: the roles alternate as in slack_events
NumberedMessage(k) ==
    [role |-> IF k % 2 = 1 THEN "user" ELSE "assistant", content |-> k]

\* User.get_history: a list of the messages of the deque, oldest first
get_history(h, user_id) == h[HistoryId(user_id)]

HistoryInit ==
    /\ users = [u \in HistoryUsers |-> HistoryId(u)]
    /\ heap = [id \in {HistoryId(u) : u \in HistoryUsers} |-> <<>>]
    /\ current = [pc |-> "adding", added |-> [u \in HistoryUsers |-> 0]]
    /\ recent_event_ids = {}
    /\ awaiting = 0
    /\ handled = <<>>
    /\ delivery = [run |-> <<>>, calls |-> <<>>]
    /\ conversation_history = <<>>
    /\ input_history = <<>>
    /\ depth = 0
    /\ max_depth = 0
    /\ pc = "history"
    /\ completion = PyNone
    /\ tool_calls = <<>>
    /\ tc_index = 1
    /\ execution_result = PyNone
    /\ simplified = PyNone
    /\ llm_calls = 0
    /\ function_call = PyNone
    /\ tool_result = PyNone
    /\ TwinIdle

\* one call of add_message for a user
AddMessage ==
    /\ pc = "history"
    /\ \E u \in HistoryUsers :
         /\ current.added[u] < MaxAdded
         /\ LET msg == NumberedMessage(current.added[u] + 1)
            IN heap' = add_message(heap, u, msg.role, msg.content)
         /\ current' = [current EXCEPT !.added[u] = @ + 1]
    /\ UNCHANGED <<recent_event_ids, users, awaiting, handled, delivery>>
    /\ UNCHANGED run_vars
    /\ UNCHANGED twin_vars

HistoryNext == AddMessage

HistorySpec == HistoryInit /\ [][HistoryNext]_vars

(***************************************************************************)
(* Reading a conversation.                                                 *)
(***************************************************************************)
Returned == pc = "returned"

\* an assistant message that carries tool-call requests
ToolTurn(m) == m.role = "assistant" /\ "tool_calls" \in DOMAIN m

\* the messages the run appended
AppendedIdx == (Len(input_history) + 1)..Len(conversation_history)

\* the number of assistant turns with tool calls among the first i messages
ToolTurnsUpTo(i) == Cardinality({t \in 1..i : ToolTurn(conversation_history[t])})

ToolTurns == ToolTurnsUpTo(Len(conversation_history))

\* the assistant turn whose requests the tool message at i answers
TurnStart(i) ==
    CHOOSE t \in 1..(i - 1) :
        /\ ToolTurn(conversation_history[t])
        /\ \A u \in (t + 1)..(i - 1) : ~ToolTurn(conversation_history[u])

RequestOf(i) == conversation_history[TurnStart(i)].tool_calls[i - TurnStart(i)]

IsClarification(m) == m = assistant_clarification_message

\* a mapping tagged success or error
IsToolResult(v) ==
    /\ IsDict(v)
    /\ PyGet(v, "type") \in {PyStr(<<"success">>), PyStr(<<"error">>)}

IsErrorResult(v) == IsDict(v) /\ PyGet(v, "type") = PyStr(<<"error">>)

\* a result whose data holds an image payload
HasImagePayload(v) ==
    /\ IsDict(v)
    /\ IsDict(PyGet(v, "data"))
    /\ "image" \in DOMAIN PyGet(v, "data").d

(***************************************************************************)
(* C1. A run started at depth 0 terminates, and it calls respond at most   *)
(* max_depth + 1 times, however many tool calls each reply requests.       *)
(* Termination: a run that has not returned can always take a step, and    *)
(* every step makes the triple (rounds left, place in the frame, tool      *)
(* calls left in the turn) of natural numbers smaller in the               *)
(* lexicographic order, so no run takes infinitely many steps.             *)
(***************************************************************************)
RoundsLeft == max_depth + 1 - depth

PlaceInFrame == CASE pc = "entry" -> 2 [] pc = "dispatch" -> 1 [] OTHER -> 0

CallsLeft == Len(tool_calls) + 1 - tc_index

MeasureDecreases ==
    \/ RoundsLeft' < RoundsLeft
    \/ RoundsLeft' = RoundsLeft /\ PlaceInFrame' < PlaceInFrame
    \/ RoundsLeft' = RoundsLeft /\ PlaceInFrame' = PlaceInFrame /\ CallsLeft' < CallsLeft

C1_Termination ==
    /\ [](llm_calls <= max_depth + 1)
    /\ [](Returned \/ ENABLED Next)
    /\ [](RoundsLeft >= 0 /\ CallsLeft >= 0)
    /\ [][MeasureDecreases]_vars

\* a run that used all its round-trips, one of them requesting two tools
C1_Witness ==
    /\ Returned
    /\ max_depth = 2
    /\ llm_calls = max_depth + 1
    /\ \E i \in AppendedIdx :
         /\ ToolTurn(conversation_history[i])
         /\ Len(conversation_history[i].tool_calls) = 2

(***************************************************************************)
(* C2. In the conversation a run returns, every assistant message with k   *)
(* tool-call requests is followed at once by exactly k tool messages, the  *)
(* i-th carrying the id of the i-th request, and no tool message stands    *)
(* anywhere else.                                                          *)
(***************************************************************************)
C2_TurnResponsePairing ==
    Returned =>
      /\ \A i \in 1..Len(conversation_history) :
           ToolTurn(conversation_history[i]) =>
             LET k == Len(conversation_history[i].tool_calls) IN
             /\ i + k <= Len(conversation_history)
             /\ \A j \in 1..k :
                  /\ conversation_history[i + j].role = "tool"
                  /\ conversation_history[i + j].tool_call_id =
                       conversation_history[i].tool_calls[j].id
             /\ i + k < Len(conversation_history) =>
                  conversation_history[i + k + 1].role # "tool"
      /\ \A i \in 1..Len(conversation_history) :
           conversation_history[i].role = "tool" =>
             \E t \in 1..(i - 1) :
               /\ ToolTurn(conversation_history[t])
               /\ i - t <= Len(conversation_history[t].tool_calls)

\* a returned run with a turn of two requests that have different ids
C2_Witness ==
    /\ Returned
    /\ \E i \in AppendedIdx :
         /\ ToolTurn(conversation_history[i])
         /\ Len(conversation_history[i].tool_calls) = 2
         /\ conversation_history[i].tool_calls[1].id # conversation_history[i].tool_calls[2].id
         /\ conversation_history[i + 2].tool_call_id = conversation_history[i].tool_calls[2].id

(***************************************************************************)
(* C3. No exception leaves process_user_request, whatever the LLM and the  *)
(* handlers do: the run is never left by a raise, and what it returns is   *)
(* the input followed by messages that end with an assistant message.      *)
(***************************************************************************)
C3_NeverRaises ==
    /\ pc # "raised"
    /\ Returned =>
         /\ Len(conversation_history) > Len(input_history)
         /\ Last(conversation_history).role = "assistant"

\* a returned run in which a handler raised and then the LLM call failed
C3_Witness ==
    /\ Returned
    /\ llm_calls = 2
    /\ IsNone(completion)
    /\ \E i \in AppendedIdx :
         /\ conversation_history[i].role = "tool"
         /\ Contains(conversation_history[i].content.s, <<"Query execution failed: ">>)

(***************************************************************************)
(* C4. What a run returns is its input followed by the messages of the     *)
(* run, the last of which is an assistant message without tool_calls;      *)
(* every other assistant message the run appended carries tool_calls.      *)
(***************************************************************************)
C4_OneFinalAssistant ==
    Returned =>
      /\ Len(conversation_history) > Len(input_history)
      /\ SubSeq(conversation_history, 1, Len(input_history)) = input_history
      /\ Last(conversation_history).role = "assistant"
      /\ "tool_calls" \notin DOMAIN Last(conversation_history)
      /\ \A i \in AppendedIdx :
           (i < Len(conversation_history) /\ conversation_history[i].role = "assistant")
             => "tool_calls" \in DOMAIN conversation_history[i]

\* a returned run with two assistant turns that requested tools and a final text
C4_Witness ==
    /\ Returned
    /\ ToolTurns = 2
    /\ llm_calls = 3
    /\ Last(conversation_history).content = PyStr(<<"Here is what I found.">>)

(***************************************************************************)
(* C5 as the spec states it. execute_function_call returns, on every path, *)
(* a mapping tagged success or error: no None, no scalar and no exception  *)
(* leaves it.  Checked under DispatchSpec.                                 *)
(***************************************************************************)
C5_AlwaysToolResult ==
    /\ pc # "raised"
    /\ pc = "called" => IsToolResult(execution_result)

(***************************************************************************)
(* C5 as amended. execute_function_call never raises; it returns an error  *)
(* mapping when the name is not registered, when the arguments do not fit  *)
(* the handler and when the handler raises; when the handler returns, it   *)
(* returns the handler's value as it is, be it a mapping, a text or None.  *)
(* Checked under DispatchSpec.                                             *)
(***************************************************************************)
\* the handler of the call fits the arguments
ArgumentsFit(call) ==
    /\ IsDict(call.function_arguments)
    /\ DOMAIN call.function_arguments.d = Params(call.function_name)

\* what the handlers of googledb.py and wrappers.py do, read off the source:
\* the two BigQuery tools raise when the backend fails, resolve_name returns
\* None when nothing matches, the chart wrappers always return a mapping
HandlerRaises(call) ==
    /\ call.function_name \in {"execute_sql_query", "resolve_name"}
    /\ call.backend = "fail"

C5_DispatchTotal ==
    /\ pc # "raised"
    /\ pc = "called" =>
         IF function_call.function_name \notin FUNCTION_REGISTRY
         THEN /\ IsErrorResult(execution_result)
              /\ Contains(execution_result.d.data.d.message.s, <<"' not found in registry">>)
         ELSE IF ~ArgumentsFit(function_call)
         THEN /\ IsErrorResult(execution_result)
              /\ Contains(execution_result.d.data.d.message.s, <<function_call.function_name, "'">>)
              /\ "details" \in DOMAIN execution_result.d.data.d
         ELSE IF HandlerRaises(function_call)
         THEN /\ IsErrorResult(execution_result)
              /\ "details" \in DOMAIN execution_result.d.data.d
         ELSE CASE function_call.function_name = "execute_sql_query" ->
                     IsStr(execution_result)
                [] function_call.function_name = "resolve_name" ->
                     IF function_call.backend = "empty"
                     THEN IsNone(execution_result)
                     ELSE IsStr(execution_result)
                [] OTHER ->
                     /\ IsToolResult(execution_result)
                     /\ function_call.backend = "ok" <=> HasImagePayload(execution_result)

\* resolve_name found no match: the dispatcher hands None on
C5_Witness ==
    /\ pc = "called"
    /\ function_call.function_name = "resolve_name"
    /\ ArgumentsFit(function_call)
    /\ function_call.backend = "empty"
    /\ IsNone(execution_result)

(***************************************************************************)
(* C6. When a dispatched tool result holds an image payload in its data,   *)
(* the content of the tool message appended for it does not contain the    *)
(* payload and names the image as "generated successfully", and the        *)
(* message's original content is the result itself, payload included.      *)
(***************************************************************************)
C6_ChannelIsolation ==
    (/\ pc = "dispatch"
     /\ tc_index > 1
     /\ HasImagePayload(execution_result)) =>
       LET m == Last(conversation_history)
           payload == encode_image_to_base64(ImageBytes)
       IN /\ m.role = "tool"
          /\ ~Contains(m.content.s, payload.s)
          /\ \A i \in 1..Len(payload.s) : ~Contains(m.content.s, <<payload.s[i]>>)
          /\ Contains(m.content.s,
                      <<"\"", "image", "\": ", "\"", "generated successfully", "\"">>)
          /\ "original_content" \in DOMAIN m
          /\ m.original_content = execution_result
          /\ m.original_content.d.data.d.image = payload

\* a chart tool has just been dispatched and its message appended
C6_Witness ==
    /\ pc = "dispatch"
    /\ tc_index > 1
    /\ tool_calls[tc_index - 1].function.name = "create_bar_chart"
    /\ HasImagePayload(execution_result)
    /\ Last(conversation_history).role = "tool"

(***************************************************************************)
(* C7 as the spec states it. After a tool call that failed, the run makes  *)
(* a further LLM round-trip: in the conversation a run returns, a failed   *)
(* tool message of the j-th assistant turn means that respond was called   *)
(* more than j times.                                                      *)
(***************************************************************************)
\* a tool message that records a failure: an error result, or the text
\* written for a result of None
FailedToolMessage(m) ==
    /\ m.role = "tool"
    /\ IF "original_content" \in DOMAIN m
       THEN IsErrorResult(m.original_content)
       ELSE Contains(m.content.s, <<"' failed to execute">>)

C7_FailureThenRoundTrip ==
    Returned =>
      \A i \in AppendedIdx :
        FailedToolMessage(conversation_history[i]) => llm_calls > ToolTurnsUpTo(i)

(***************************************************************************)
(* C7 as amended. A tool failure never ends the run: it is recorded as a   *)
(* tool message (saying "not found in registry" for an unregistered name), *)
(* the run goes on to the next depth, and there it makes a further LLM     *)
(* round-trip unless max_depth is used up, in which case it ends with the  *)
(* max-depth clarification after max_depth + 1 round-trips.                *)
(***************************************************************************)
C7_ToolFailureContinues ==
    \A i \in AppendedIdx :
      FailedToolMessage(conversation_history[i]) =>
        /\ RequestOf(i).function.name \notin FUNCTION_REGISTRY =>
             Contains(conversation_history[i].content.s, <<"' not found in registry">>)
        /\ Returned =>
             /\ i < Len(conversation_history)
             /\ ToolTurnsUpTo(i) <= max_depth => llm_calls > ToolTurnsUpTo(i)
             /\ ToolTurnsUpTo(i) > max_depth =>
                  /\ IsClarification(Last(conversation_history))
                  /\ llm_calls = max_depth + 1

\* an unregistered tool was requested in the first turn, and the LLM was
\* called again and answered
C7_Witness ==
    /\ Returned
    /\ llm_calls = 2
    /\ Last(conversation_history).content = PyStr(<<"Here is what I found.">>)
    /\ \E i \in AppendedIdx :
         /\ FailedToolMessage(conversation_history[i])
         /\ RequestOf(i).function.name = "lookup_customer"

(***************************************************************************)
(* C8. When the LLM call fails, or the reply has neither text content nor  *)
(* tool-call requests, the run appends the clarification message and ends  *)
(* there: it has returned and the clarification is the last message.       *)
(***************************************************************************)
\* the call failed, or the reply holds no message, or a message with no
\* text and no tool-call request
Unusable(c) ==
    \/ IsNone(c)
    \/ c.choices = <<>>
    \/ /\ IsNone(c.choices[1].message.content)
       /\ ~Truthy(c.choices[1].message.tool_calls)

C8_UnusableReplyClarifies ==
    (llm_calls > 0 /\ Unusable(completion)) =>
      /\ Returned
      /\ IsClarification(Last(conversation_history))

(***************************************************************************)
(* C9. When every LLM reply of a run requests at least one tool call, the  *)
(* run makes exactly max_depth + 1 round-trips and the last message of     *)
(* what it returns is the clarification.                                   *)
(***************************************************************************)
C9_MaxDepthScenario ==
    (Returned /\ ToolTurns = llm_calls) =>
      /\ llm_calls = max_depth + 1
      /\ IsClarification(Last(conversation_history))

\* max_depth = 2 and three replies that all requested tools
C9_Witness ==
    /\ Returned
    /\ max_depth = 2
    /\ ToolTurns = 3
    /\ llm_calls = 3

(***************************************************************************)
(* C10. For every tool result that is not a success result with an image   *)
(* payload in its data, create_simplified_tool_response returns the result *)
(* it was given.  Checked under SplitSpec.                                 *)
(***************************************************************************)
C10_IdempotentSplit ==
    (/\ pc = "split_done"
     /\ ~(/\ HasImagePayload(tool_result)
          /\ PyGet(tool_result, "type") = PyStr(<<"success">>))) =>
      simplified = tool_result

\* an error result that has an image entry in its data, handed back as it is
C10_Witness ==
    /\ pc = "split_done"
    /\ IsErrorResult(tool_result)
    /\ HasImagePayload(tool_result)
    /\ simplified = tool_result

(***************************************************************************)
(* C15. A message appended by a run has null content only if it is an      *)
(* assistant message that carries tool calls; the final assistant message  *)
(* never has null content.                                                 *)
(***************************************************************************)
C15_NullContentOnlyWithToolCalls ==
    Returned =>
      /\ \A i \in AppendedIdx :
           IsNone(conversation_history[i].content) => ToolTurn(conversation_history[i])
      /\ ~IsNone(Last(conversation_history).content)

(***************************************************************************)
(* C16. The conversation is append-only during a run: every step leaves    *)
(* the conversation as it was and at most adds messages at its end, so the *)
(* messages of the input and those appended earlier keep their place and   *)
(* their value.                                                            *)
(***************************************************************************)
IsPrefix(s, t) == Len(s) <= Len(t) /\ SubSeq(t, 1, Len(s)) = s

C16_AppendOnly ==
    /\ [](IsPrefix(input_history, conversation_history))
    /\ [][IsPrefix(conversation_history, conversation_history')]_vars

\* a run that went to the max-depth clarification over two tool turns
C16_Witness ==
    /\ Returned
    /\ ToolTurns = 2
    /\ max_depth = 1
    /\ IsClarification(Last(conversation_history))
    /\ Len(conversation_history) >= Len(input_history) + 5

(***************************************************************************)
(* C17. Within one assistant turn the requested tool calls are dispatched  *)
(* one after the other in the order of the request, each once: while the   *)
(* loop stands at call i, the tool messages of calls 1..i-1, and only      *)
(* those, follow the assistant message; a dispatch answers call i and      *)
(* moves to call i+1; and the run goes on to the next LLM round-trip only  *)
(* when the tool message of the last call has been appended.               *)
(***************************************************************************)
\* the place of the assistant message of the turn being dispatched
DispatchTurnStart == Len(conversation_history) - (tc_index - 1)

InOrderSoFar ==
    pc = "dispatch" =>
      /\ tc_index \in 1..(Len(tool_calls) + 1)
      /\ DispatchTurnStart > Len(input_history)
      /\ ToolTurn(conversation_history[DispatchTurnStart])
      /\ conversation_history[DispatchTurnStart].tool_calls = tool_calls
      /\ \A j \in 1..(tc_index - 1) :
           /\ conversation_history[DispatchTurnStart + j].role = "tool"
           /\ conversation_history[DispatchTurnStart + j].tool_call_id = tool_calls[j].id

OneCallPerStep ==
    /\ (pc = "dispatch" /\ conversation_history' # conversation_history) =>
         /\ tc_index <= Len(tool_calls)
         /\ tc_index' = tc_index + 1
         /\ tool_calls' = tool_calls
         /\ conversation_history' \in
              {Append(conversation_history, ToolResponse(tool_calls[tc_index], r.value)) :
                 r \in {execute_function_call(
                           tool_calls[tc_index].function.name,
                           (IF json_loads(tool_calls[tc_index].function.arguments).kind = "raise"
                            THEN PyDict(<<>>)
                            ELSE json_loads(tool_calls[tc_index].function.arguments).value),
                           b) : b \in BackendOutcomes}}
    /\ (pc = "dispatch" /\ pc' # "dispatch") => tc_index = Len(tool_calls) + 1
    /\ llm_calls' # llm_calls => pc = "entry"

C17_SequentialDispatch ==
    /\ []InOrderSoFar
    /\ [][OneCallPerStep]_vars

\* the loop stands between the first and the second call of a turn
C17_Witness ==
    /\ pc = "dispatch"
    /\ Len(tool_calls) = 2
    /\ tc_index = 2
    /\ tool_calls[1].function.name # tool_calls[2].function.name
    /\ Last(conversation_history).tool_call_id = tool_calls[1].id

(***************************************************************************)
(* C18 as the spec states it. When a registered handler returns None,      *)
(* execute_function_call returns an error mapping whose message is         *)
(* "function '<name>' returned no result".  Checked under DispatchSpec.    *)
(***************************************************************************)
\* the handler of the call, reached with fitting arguments, and what it gives
HandlerOutcome(call) ==
    function_handler(call.function_name, call.function_arguments, call.backend)

HandlerReturns(call) ==
    /\ call.function_name \in FUNCTION_REGISTRY
    /\ HandlerOutcome(call).kind = "return"

C18_NoneBecomesError ==
    (/\ pc = "called"
     /\ HandlerReturns(function_call)
     /\ IsNone(HandlerOutcome(function_call).value)) =>
       /\ IsErrorResult(execution_result)
       /\ PyGet(PyGet(execution_result, "data"), "message") =
            PyStr(<<"function '", function_call.function_name, "' returned no result">>)

(***************************************************************************)
(* C18 as amended. When a registered handler returns None,                 *)
(* execute_function_call returns None; the tool message the caller builds  *)
(* for it has the content "Function '<name>' failed to execute" and no     *)
(* original content.  Checked under DispatchSpec.                          *)
(***************************************************************************)
\* the tool message lines 219-239 build for the dispatched call
RecordedAs(call, result) ==
    ToolResponse(ToolCall("call_1", call.function_name, ""), result)

C18_NonePassedOn ==
    (/\ pc = "called"
     /\ HandlerReturns(function_call)
     /\ IsNone(HandlerOutcome(function_call).value)) =>
       /\ IsNone(execution_result)
       /\ RecordedAs(function_call, execution_result).content =
            PyStr(<<"Function '", function_call.function_name, "' failed to execute">>)
       /\ "original_content" \notin DOMAIN RecordedAs(function_call, execution_result)

\* resolve_name, called with its three arguments, found no match
C18_Witness ==
    /\ pc = "called"
    /\ function_call.function_name = "resolve_name"
    /\ HandlerReturns(function_call)
    /\ IsNone(HandlerOutcome(function_call).value)
    /\ IsNone(execution_result)

(***************************************************************************)
(* C19 as the spec states it. When a registered handler returns a text,    *)
(* execute_function_call returns {type: success, data: {value: <text>}}.   *)
(* Checked under DispatchSpec.                                             *)
(***************************************************************************)
C19_TextWrapped ==
    (/\ pc = "called"
     /\ HandlerReturns(function_call)
     /\ IsStr(HandlerOutcome(function_call).value)) =>
       execution_result =
         PyDict([type |-> PyStr(<<"success">>),
                 data |-> PyDict([value |-> HandlerOutcome(function_call).value])])

(***************************************************************************)
(* C19 as amended. When a registered handler returns a text,               *)
(* execute_function_call returns that text as it is, not a mapping; the    *)
(* tool message the caller builds for it has the text as its content and   *)
(* no original content.  Checked under DispatchSpec.                       *)
(***************************************************************************)
C19_TextPassedOn ==
    (/\ pc = "called"
     /\ HandlerReturns(function_call)
     /\ IsStr(HandlerOutcome(function_call).value)) =>
       /\ execution_result = HandlerOutcome(function_call).value
       /\ RecordedAs(function_call, execution_result).content = execution_result
       /\ "original_content" \notin DOMAIN RecordedAs(function_call, execution_result)

\* the SQL tool answered with its table
C19_Witness ==
    /\ pc = "called"
    /\ function_call.function_name = "execute_sql_query"
    /\ function_call.backend = "ok"
    /\ IsStr(execution_result)
    /\ Contains(execution_result.s, <<"\n\n**Table Data:**\n\n">>)

(***************************************************************************)
(* C20. When a registered handler returns a mapping,                       *)
(* execute_function_call returns it unchanged if it carries a type and a   *)
(* data entry, and every mapping that execute_function_call returns        *)
(* carries a type.  The mappings the registered handlers return are built  *)
(* by create_success_response and create_error_response, so each of them   *)
(* carries the pair: the case of a mapping without it, which the claim     *)
(* has wrapped as {type: success, data: <mapping>}, does not arise.        *)
(* Checked under DispatchSpec.                                             *)
(***************************************************************************)
HasTypeAndData(v) == "type" \in DOMAIN v.d /\ "data" \in DOMAIN v.d

C20_MappingPassThrough ==
    /\ (/\ pc = "called"
        /\ HandlerReturns(function_call)
        /\ IsDict(HandlerOutcome(function_call).value)) =>
          /\ HasTypeAndData(HandlerOutcome(function_call).value)
          /\ execution_result = HandlerOutcome(function_call).value
    /\ (pc = "called" /\ IsDict(execution_result)) => "type" \in DOMAIN execution_result.d

\* a chart wrapper returned its success response, image included
C20_Witness ==
    /\ pc = "called"
    /\ function_call.function_name = "create_bar_chart"
    /\ HandlerReturns(function_call)
    /\ HasImagePayload(execution_result)
    /\ execution_result = HandlerOutcome(function_call).value

(***************************************************************************)
(* C11.  The invocations of slack_events for one event_id.                 *)
(***************************************************************************)
MentionIds == {BodyEventId(b) : b \in {x \in EventBodies :
                  "event" \in DOMAIN x /\ x.event.type = "app_mention"}}

\* the invocations that ended and were sent the event id
DeliveriesOf(id) ==
    {i \in 1..Len(handled) :
       "event_id" \in DOMAIN handled[i].body /\ handled[i].body.event_id = id}

\* the runs started for the event id: by an invocation that ended, or by
\* the one that is between line 104 and line 107
StartedFor(id) ==
    Cardinality({i \in DeliveriesOf(id) : handled[i].ran})
    + (IF current.pc = "run" /\ current.body.event_id = id THEN 1 ELSE 0)

\* C11: for every app_mention event that was delivered, whatever the number
\* of deliveries and the other events in between, process_user_request was
\* started exactly once
C11_StartedExactlyOnce ==
    \A id \in MentionIds :
      (DeliveriesOf(id) # {} /\ current.pc = "idle") => StartedFor(id) = 1

(***************************************************************************)
(* C12.  What the delivery does with the output of a run.                  *)
(***************************************************************************)
\* the tool messages of a run's output whose original content is a mapping
\* with an image payload
ImageMessages(run) ==
    {i \in 1..Len(run) :
       /\ run[i].role = "tool"
       /\ "original_content" \in DOMAIN run[i]
       /\ IsDict(run[i].original_content)
       /\ IsDict(PyGet(run[i].original_content, "data"))
       /\ "image" \in DOMAIN PyGet(run[i].original_content, "data").d}

Uploads(calls) == {k \in 1..Len(calls) : calls[k].method = "files_upload_v2"}

Posts(calls) == {k \in 1..Len(calls) : calls[k].method = "chat_postMessage"}

\* the run of the last invocation returned an output
Delivered == delivery.run # <<>>

\* C12: the delivery uploads the image of the last tool message whose
\* original content is a mapping with an image payload; when the output has
\* no such message nothing is uploaded and the delivery goes on to post the
\* answer
C12_DeliveryLocatesImage ==
    Delivered =>
      LET run == delivery.run
          calls == delivery.calls
      IN IF ImageMessages(run) = {}
         THEN Uploads(calls) = {} /\ Posts(calls) # {}
         ELSE LET last == CHOOSE m \in ImageMessages(run) :
                            \A n \in ImageMessages(run) : n <= m
                  data == PyGet(run[last].original_content, "data")
              IN \E k \in Uploads(calls) :
                   calls[k].file = decode_image(data.d.image)

(***************************************************************************)
(* C13.  The list handed to process_user_request.                          *)
(***************************************************************************)
\* the objects that hold the stored histories
StoredHistories == {users[u] : u \in DOMAIN users}

\* the list handed to the run is not a stored history
HandedListIsOwn ==
    current.pc = "run" => current.temp_history \notin StoredHistories

\* while an invocation is between line 104 and line 107 no step of another
\* invocation changes the list it is about to hand over
HandedListUntouched ==
    (current.pc = "run" /\ current'.pc = "run")
      => /\ current' = current
         /\ heap'[current.temp_history] = heap[current.temp_history]

\* C13: for any interleaving of the invocations, the list handed to a run is
\* never a stored user history and is never changed by another invocation
C13_ExclusiveConversation ==
    []HandedListIsOwn /\ [][HandedListUntouched]_vars

\* a run is about to start while another invocation waits for its body
C13_Witness ==
    /\ current.pc = "run"
    /\ awaiting > 0

(***************************************************************************)
(* C14.  The system prompt and the stored history.                         *)
(***************************************************************************)
NoSystemMessage(history) == \A k \in 1..Len(history) : history[k].role # "system"

\* no stored history holds a system message
NothingPersisted == \A u \in DOMAIN users : NoSystemMessage(heap[users[u]])

\* the list about to be handed to the run starts with the system prompt,
\* followed by the stored history and the user query
PromptPrepended ==
    current.pc = "run" =>
      heap[current.temp_history] =
        <<SystemMessage>> \o Append(heap[users[current.user_id]],
                                    [role |-> "user", content |-> current.user_query])

\* this step ends an invocation whose run returned, for user u
RunReturnedFor(u) ==
    /\ current.pc = "run"
    /\ current.user_id = u
    /\ Len(handled') = Len(handled) + 1
    /\ delivery'.run # <<>>

\* the stored history after the user query and the final content were added
ExtendedBy(old, new, user_query, output) ==
    LET added == <<[role |-> "user", content |-> user_query],
                   [role |-> "assistant", content |-> output]>>
    IN IF Len(old) + 2 <= MAX_HISTORY
       THEN new = old \o added
       ELSE /\ Len(new) = MAX_HISTORY
            /\ SubSeq(new, MAX_HISTORY - 1, MAX_HISTORY) = added

\* a step changes a stored history only when a run returns, and then by the
\* user query followed by the content of the last message of the run
HistoryStep ==
    /\ \A u \in DOMAIN users :
         IF RunReturnedFor(u)
         THEN ExtendedBy(heap[users[u]], heap'[users'[u]], current.user_query,
                         Last(delivery'.run).content)
         ELSE heap'[users'[u]] = heap[users[u]]
    /\ \A u \in DOMAIN users' \ DOMAIN users : heap'[users'[u]] = <<>>

\* C14: the system prompt is in front of the conversation handed to the run
\* and is never stored: no stored history holds a system message, and each
\* event whose run returned extends the user's stored history by exactly the
\* user query followed by the final assistant content
C14_PromptNotPersisted ==
    [](NothingPersisted /\ PromptPrepended) /\ [][HistoryStep]_vars

\* two events of one user were handled
C14_Witness ==
    /\ current.pc = "idle"
    /\ "U1" \in DOMAIN users
    /\ Len(heap[users["U1"]]) = 4
    /\ Len(handled) = 2 /\ handled[1].ran /\ handled[2].ran

(***************************************************************************)
(* C21.  How execute_function_call reports a handler that raised.          *)
(* Checked under DispatchSpec.                                             *)
(***************************************************************************)
\* the message of an error result is the one of lines 111-114, of lines 120-123
SaysInvalidArguments(result, name) ==
    /\ IsErrorResult(result)
    /\ result.d.data.d.message =
         PyStr(<<" in execute_function_call Invalid arguments for function '", name, "'">>)

SaysErrorExecuting(result, name) ==
    /\ IsErrorResult(result)
    /\ result.d.data.d.message =
         PyStr(<<" in execute_function_call Error executing function '", name, "'">>)

\* the details of an error result are the text of the exception
DetailsAre(result, text) ==
    /\ "details" \in DOMAIN result.d.data.d
    /\ result.d.data.d.details = PyStr(text)

\* C21: for a registered name the dispatcher returns the error "Invalid
\* arguments for function '<name>'" exactly when the arguments do not match
\* the handler's parameters, and "Error executing function '<name>'" for
\* every other exception of the handler, each with the failure text as details
C21_FailureClassified ==
    (pc = "called" /\ function_call.function_name \in FUNCTION_REGISTRY) =>
      LET name == function_call.function_name
          outcome == HandlerOutcome(function_call)
      IN /\ SaysInvalidArguments(execution_result, name) <=> ~ArgumentsFit(function_call)
         /\ SaysErrorExecuting(execution_result, name) <=>
              (ArgumentsFit(function_call) /\ outcome.kind = "raise")
         /\ outcome.kind = "raise" => DetailsAre(execution_result, outcome.text)

\* both kinds of failure were dispatched: a handler that raised on fitting
\* arguments
C21_Witness ==
    /\ pc = "called"
    /\ function_call.function_name = "execute_sql_query"
    /\ ArgumentsFit(function_call)
    /\ function_call.backend = "fail"
    /\ SaysErrorExecuting(execution_result, "execute_sql_query")

(***************************************************************************)
(* C22.  A name that is not registered.  Checked under DispatchSpec.       *)
(***************************************************************************)
\* the error result of lines 92-94 for the name
NotFoundResult(name) ==
    PyDict([type |-> PyStr(<<"error">>),
            data |-> PyDict([message |->
                       PyStr(<<"in execute_function_call Function '", name,
                               "' not found in registry", "\n">>)])])

\* C22: for a name that is not in the registry the dispatcher returns the
\* error result whose message says the function '<name>' was not found in
\* the registry; the result owes nothing to a handler: it is the same
\* whatever the arguments and the backend
C22_UnknownNameNotFound ==
    (pc = "called" /\ function_call.function_name \notin FUNCTION_REGISTRY) =>
      /\ execution_result = NotFoundResult(function_call.function_name)
      /\ Contains(execution_result.d.data.d.message.s,
                  <<function_call.function_name, "' not found in registry">>)

\* a name that is not registered was dispatched with fitting arguments for
\* some handler and a failing backend
C22_Witness ==
    /\ pc = "called"
    /\ function_call.function_name = "lookup_customer"
    /\ function_call.function_arguments = json_loads(SqlArgsText).value
    /\ function_call.backend = "fail"

(***************************************************************************)
(* C23.  A tool call whose argument text does not parse.                   *)
(***************************************************************************)
\* the loop is at a call for a registered name whose arguments do not parse
AtUnparsedCall ==
    /\ pc = "dispatch"
    /\ tc_index <= Len(tool_calls)
    /\ tool_calls[tc_index].function.name \in FUNCTION_REGISTRY
    /\ json_loads(tool_calls[tc_index].function.arguments).kind = "raise"

\* what the dispatcher gives for the name with an empty mapping
DispatchedEmpty(name) ==
    {execute_function_call(name, PyDict(<<>>), b).value : b \in BackendOutcomes}

\* the step at such a call appends one tool message with the id of the call
\* for the result of the dispatch with an empty mapping, and stays in the loop
UnparsedCallStep ==
    AtUnparsedCall =>
      /\ pc' = "dispatch"
      /\ tc_index' = tc_index + 1
      /\ execution_result' \in DispatchedEmpty(tool_calls[tc_index].function.name)
      /\ conversation_history' =
           Append(conversation_history,
                  ToolResponse(tool_calls[tc_index], execution_result'))
      /\ Last(conversation_history').role = "tool"
      /\ Last(conversation_history').tool_call_id = tool_calls[tc_index].id

\* C23: when the argument text of a tool call for a registered name does not
\* parse, the call is not dropped and the run goes on: the name is dispatched
\* with an empty mapping and exactly one tool message with the id of the
\* call is appended
C23_UnparsedArgumentsDispatched == [][UnparsedCallStep]_vars

\* the call with the unparsable arguments was answered
C23_Witness ==
    /\ pc = "dispatch"
    /\ tc_index > 1
    /\ json_loads(tool_calls[tc_index - 1].function.arguments).kind = "raise"
    /\ Last(conversation_history).role = "tool"
    /\ Last(conversation_history).tool_call_id = tool_calls[tc_index - 1].id
    /\ SaysInvalidArguments(execution_result, tool_calls[tc_index - 1].function.name)

(***************************************************************************)
(* C24.  The simplified form of a success result with an image payload.    *)
(* Checked under SplitSpec.                                                *)
(***************************************************************************)
\* the splitter was given a success result whose data holds an image
SplitImageResult ==
    /\ pc = "split_done"
    /\ HasImagePayload(tool_result)
    /\ PyGet(tool_result, "type") = PyStr(<<"success">>)

DepthCountsRoundTrips == pc = "entry" => depth = llm_calls

\* depth changes only at the recursion of line 244, by one, and every step
\* that leads to another entry is that recursion
DepthStep ==
    /\ depth' = depth \/ depth' = depth + 1
    /\ depth' = depth + 1 <=> (pc = "dispatch" /\ pc' = "entry")

\* C25: depth is incremented by exactly one per LLM round-trip that leads to
\* another step and is never decremented; on every entry to the step depth
\* equals the number of LLM round-trips completed so far
C25_DepthCounts == []DepthCountsRoundTrips /\ [][DepthStep]_vars

\* the third entry of a run
C25_Witness ==
    /\ pc = "entry"
    /\ depth = 2
    /\ llm_calls = 2

(***************************************************************************)
(* C26.  The conversation sent to the LLM.                                 *)
(***************************************************************************)
\* the assistant message at t is followed by one tool message per request,
\* in the order of the requests
Answered(t) ==
    LET requests == conversation_history[t].tool_calls IN
    /\ t + Len(requests) <= Len(conversation_history)
    /\ \A k \in 1..Len(requests) :
         /\ conversation_history[t + k].role = "tool"
         /\ conversation_history[t + k].tool_call_id = requests[k].id

\* every assistant message with tool calls that the run appended is answered
AllAnswered ==
    \A t \in AppendedIdx : ToolTurn(conversation_history[t]) => Answered(t)

\* the run is about to call the LLM: line 170
AboutToCallLLM == pc = "entry" /\ ~DepthExceeded(depth, max_depth)

\* C26: at every LLM call of a run every assistant message with tool calls
\* appended so far is followed by one tool message per requested call, and
\* the LLM is called from nowhere else, so never between two dispatches of
\* one turn
C26_NoUnansweredCall ==
    [](AboutToCallLLM => AllAnswered)
    /\ [][llm_calls' # llm_calls => (AboutToCallLLM /\ llm_calls' = llm_calls + 1)]_vars

\* the LLM is about to be called after a turn of two requests
C26_Witness ==
    /\ AboutToCallLLM
    /\ \E t \in AppendedIdx :
         /\ ToolTurn(conversation_history[t])
         /\ Len(conversation_history[t].tool_calls) = 2
         /\ t + 2 = Len(conversation_history)

(***************************************************************************)
(* C27.  Two runs on the same replies.  Checked under TwinSpec.            *)
(***************************************************************************)
\* the role of each message a run appended, and for a tool message the id
\* of the call it answers
Shape(conv) ==
    [i \in 1..(Len(conv) - Len(input_history)) |->
       LET msg == conv[Len(input_history) + i]
       IN IF msg.role = "tool" THEN <<msg.role, msg.tool_call_id>> ELSE <<msg.role>>]

\* C27: two runs with the same max_depth and the same replies of the LLM make
\* the same number of LLM round-trips, append messages of the same roles and
\* tool_call_ids and end the same way (final answer, unusable reply or max
\* depth), whatever the tool handlers return or raise
C27_FlowIndependentOfTools ==
    pc = "twins_done" =>
      /\ twins[1].round_trips = twins[2].round_trips
      /\ Shape(twins[1].conversation) = Shape(twins[2].conversation)
      /\ twins[1].terminal = twins[2].terminal
      /\ twins[1].terminal \in {"final answer", "unusable reply", "max depth"}

\* two runs of three round-trips whose tool messages differ
C27_Witness ==
    /\ pc = "twins_done"
    /\ twins[1].round_trips = 3
    /\ twins[1].terminal = "final answer"
    /\ twins[1].conversation # twins[2].conversation
    /\ \E k \in 1..Len(twins[1].conversation) :
         /\ twins[1].conversation[k].role = "tool"
         /\ "original_content" \in DOMAIN twins[1].conversation[k]
         /\ IsErrorResult(twins[1].conversation[k].original_content)
         /\ "original_content" \in DOMAIN twins[2].conversation[k]
         /\ ~IsErrorResult(twins[2].conversation[k].original_content)

(***************************************************************************)
(* C28.  The post of the answer.  Checked under PlatformSpec.              *)
(***************************************************************************)
\* C28: for every validated event whose run returned, slack_events tries to
\* post the final assistant text to the channel exactly once and answers
\* {status: ok}, whatever tool messages the run produced
C28_PostsOnceAndAnswersOk ==
    Delivered =>
      /\ Cardinality(Posts(delivery.calls)) = 1
      /\ \A k \in Posts(delivery.calls) :
           delivery.calls[k].text = Last(delivery.run).content
      /\ Last(handled).response = [status |-> "ok"]

(***************************************************************************)
(* C29.  The set of remembered event ids.  Checked under DedupSpec.        *)
(***************************************************************************)
\* the set never holds more than 1000 ids
AtMostThousand == len(recent_event_ids) <= 1000

\* a call answers True exactly when its id is in the set; otherwise the id
\* is added, and a set that grew past 1000 is cut to 500 ids
CallStep ==
    function_call' # function_call \/ recent_event_ids' # recent_event_ids
      => LET event_id == function_call'.event_id IN
         /\ execution_result' = InIds(recent_event_ids, event_id)
         /\ InIds(recent_event_ids, event_id) => recent_event_ids' = recent_event_ids
         /\ ~InIds(recent_event_ids, event_id) =>
              IF len(recent_event_ids) + 1 > 1000
              THEN len(recent_event_ids') = 500
              ELSE recent_event_ids' = AddId(recent_event_ids, event_id)

\* C29: after every call of is_duplicate_event the set holds at most 1000
\* ids; a call returns True exactly when its id is in the set and otherwise
\* adds the id; a set that grows past 1000 is cut down to 500 ids
C29_BoundedEventIds == []AtMostThousand /\ [][CallStep]_vars

\* the call with the 1001st id, after which 500 are left
C29_Witness ==
    /\ pc = "pruned"
    /\ execution_result = FALSE
    /\ len(recent_event_ids) = 500

(***************************************************************************)
(* C30.  The stored history of a user.  Checked under HistorySpec.         *)
(***************************************************************************)
\* the most recent min(n, 100) of the n messages added, in the order added
MostRecent(n) ==
    LET size == IF n < 100 THEN n ELSE 100
    IN [i \in 1..size |-> NumberedMessage(n - size + i)]

\* C30: after any sequence of add_message calls the stored history of a user
\* holds at most max_history (100) messages, in insertion order, and they
\* are the most recent min(n, max_history) of the n messages added: on
\* overflow the oldest are dropped
C30_HistoryKeepsMostRecent ==
    \A u \in HistoryUsers :
      /\ Len(get_history(heap, u)) <= 100
      /\ get_history(heap, u) = MostRecent(current.added[u])

\* a user was given two messages more than the history holds, another none
C30_Witness ==
    /\ current.added["U1"] = 102
    /\ current.added["U2"] = 0
    /\ Len(get_history(heap, "U1")) = 100
    /\ get_history(heap, "U1")[1].content = 3

====
